---- MODULE Spec2Model ----
(***************************************************************************)
(* A model of rsdb: the order-preserving key codec (storage/keycode.rs),   *)
(* the MVCC transaction layer over a byte-ordered engine                   *)
(* (storage/mvcc.rs) and the SQL binding on top of it (sql/engine/kv.rs).  *)
(* Every MVCC operation takes the engine mutex for its whole duration, so  *)
(* each one is an atomic step.                                             *)
(***************************************************************************)
EXTENDS Integers, Sequences, FiniteSets, TLC

VARIABLES
    engine,     \* the byte engine: encoded key -> stored value (both byte sequences)
    txns,       \* handle h -> [status, version, active_versions] (TransactionState)
    written,    \* history: h -> raw key -> the payload of h's last successful write, until h rolls back
    last,       \* the most recent call: which, by whom, its arguments and what it returned
    sessions,   \* SQL session s -> its Session (txn) and its connection to a client
    codec,      \* the keys in the key codec and what encode and decode made of them
    disk,       \* the DiskEngine: its log file and its directory of live keys
    query,      \* rows handed to an executor, its expressions and what it returned
    calls       \* handle h -> where its create_row (one engine call at a time) stands, and its locals

vars == <<engine, txns, written, last, sessions, codec, disk, query, calls>>

\* ------------------------------------------------------------------ bounds

\* How many transactions begin in one run (versions 0 .. MaxTxn-1).
MaxTxn == 3

Handles == 0 .. (MaxTxn - 1)

\* ------------------------------------------------------------- byte strings

\* Lexicographic order on byte sequences (Vec<u8>'s Ord, the engine's key order),
\* compared from position i on.
RECURSIVE BytesLessFrom(_, _, _)
BytesLessFrom(a, b, i) ==
    IF i > Len(b) THEN FALSE
    ELSE IF i > Len(a) THEN TRUE
    ELSE IF a[i] # b[i] THEN a[i] < b[i]
    ELSE BytesLessFrom(a, b, i + 1)

BytesLess(a, b) == BytesLessFrom(a, b, 1)

BytesLeq(a, b) == a = b \/ BytesLess(a, b)

StartsWith(s, p) == Len(p) <= Len(s) /\ SubSeq(s, 1, Len(p)) = p

\* The least element of a non-empty set of byte sequences.
MinBytes(S) == CHOOSE m \in S : \A x \in S : BytesLeq(m, x)

\* A set of byte sequences in ascending order (BTreeMap iteration order).
RECURSIVE SortBytes(_)
SortBytes(S) ==
    IF S = {} THEN <<>>
    ELSE LET m == MinBytes(S) IN <<m>> \o SortBytes(S \ {m})

\* ------------------------------------------------------------- key codec

\* u64::to_be_bytes. Model integers stay below 2^31, so the four high bytes are 0.
SerializeU64(v) ==
    <<0, 0, 0, 0, (v \div 16777216) % 256, (v \div 65536) % 256, (v \div 256) % 256, v % 256>>

\* u64::from_be_bytes of the first eight bytes.
DeserializeU64(b) ==
    b[5] * 16777216 + b[6] * 65536 + b[7] * 256 + b[8]

\* u64::MAX.to_be_bytes()
U64MaxBytes == <<255, 255, 255, 255, 255, 255, 255, 255>>

\* serialize_bytes without the escape: every byte as it is.
EscapeBytesRaw(v) == v

\* The escaping loop of serialize_bytes: 0 becomes 0 255.
RECURSIVE EscapeBytes(_)
EscapeBytes(v) ==
    IF v = <<>> THEN <<>>
    ELSE (IF Head(v) = 0 THEN <<0, 255>> ELSE <<Head(v)>>) \o EscapeBytes(Tail(v))

\* serialize_bytes: the escaped bytes and the 0 0 terminator.
SerializeBytes(v) == EscapeBytes(v) \o <<0, 0>>

\* serialize_str: the bytes of the string as they are (no escape, no terminator).
SerializeStr(s) == s

\* Deserializer::next_bytes: [ok, bytes, rest]; ok is FALSE on "unexpected input".
RECURSIVE NextBytes(_)
NextBytes(input) ==
    IF input = <<>> THEN [ok |-> FALSE, bytes |-> <<>>, rest |-> <<>>]
    ELSE IF Head(input) = 0
    THEN IF Len(input) < 2 THEN [ok |-> FALSE, bytes |-> <<>>, rest |-> <<>>]
         ELSE IF input[2] = 0 THEN [ok |-> TRUE, bytes |-> <<>>, rest |-> SubSeq(input, 3, Len(input))]
         ELSE IF input[2] = 255
         THEN LET r == NextBytes(SubSeq(input, 3, Len(input)))
              IN  [ok |-> r.ok, bytes |-> <<0>> \o r.bytes, rest |-> r.rest]
         ELSE [ok |-> FALSE, bytes |-> <<>>, rest |-> <<>>]
    ELSE LET r == NextBytes(Tail(input))
         IN  [ok |-> r.ok, bytes |-> <<Head(input)>> \o r.bytes, rest |-> r.rest]

\* MvccKey variant indices, in declaration order.
TagNextVersion == 0
TagTxnActive == 1
TagTxnWrite == 2
TagVersion == 3

\* MvccKey::encode of each variant.
EncNextVersion == <<TagNextVersion>>
EncTxnActive(v) == <<TagTxnActive>> \o SerializeU64(v)
EncTxnWrite(v, key) == <<TagTxnWrite>> \o SerializeU64(v) \o SerializeBytes(key)
EncVersion(key, v) == <<TagVersion>> \o SerializeBytes(key) \o SerializeU64(v)

\* MvccKey::Version(key, u64::MAX).encode()
EncVersionMax(key) == <<TagVersion>> \o SerializeBytes(key) \o U64MaxBytes

\* MvccKeyPrefix::encode of each variant.
EncPrefixTxnActive == <<TagTxnActive>>
EncPrefixTxnWrite(v) == <<TagTxnWrite>> \o SerializeU64(v)
EncPrefixVersion(prefix) == <<TagVersion>> \o SerializeBytes(prefix)

\* MvccKey::decode: [tag, version, key]; tag -1 stands for a decode error.
DecodeKey(data) ==
    LET tag == Head(data)
        body == Tail(data)
        bad == [tag |-> -1, version |-> 0, key |-> <<>>]
    IN  CASE tag = TagNextVersion -> [tag |-> tag, version |-> 0, key |-> <<>>]
          [] tag = TagTxnActive -> [tag |-> tag, version |-> DeserializeU64(body), key |-> <<>>]
          [] tag = TagTxnWrite ->
                LET r == NextBytes(SubSeq(body, 9, Len(body)))
                IN  IF r.ok THEN [tag |-> tag, version |-> DeserializeU64(body), key |-> r.bytes]
                    ELSE bad
          [] tag = TagVersion ->
                LET r == NextBytes(body)
                IN  IF r.ok THEN [tag |-> tag, version |-> DeserializeU64(r.rest), key |-> r.bytes]
                    ELSE bad
          [] OTHER -> bad

\* ------------------------------------------------------------- bincode values

\* bincode::serialize of a u64 (the NextVersion cell); the width is not modelled.
BincodeU64(n) == <<n>>
UnBincodeU64(b) == b[1]

\* Option<Vec<u8>> payloads: None is the tombstone.
None == <<"None">>
Some(v) == <<"Some", v>>
IsSome(o) == o[1] = "Some"
Unwrap(o) == o[2]

\* bincode::serialize(&Option<Vec<u8>>): tag byte, then length and bytes.
BincodeOption(o) == IF IsSome(o) THEN <<1, Len(Unwrap(o))>> \o Unwrap(o) ELSE <<0>>
UnBincodeOption(b) == IF b[1] = 0 THEN None ELSE Some(SubSeq(b, 3, 2 + b[2]))

\* ------------------------------------------------------------- byte engine

\* Engine::set / get / delete on the ordered key directory.
EngineSet(eng, key, value) ==
    [k \in (DOMAIN eng) \cup {key} |-> IF k = key THEN value ELSE eng[k]]

EngineGet(eng, key) == IF key \in DOMAIN eng THEN Some(eng[key]) ELSE None

EngineDelete(eng, key) == [k \in (DOMAIN eng) \ {key} |-> eng[k]]

\* Engine::scan(from..to): the keys in the half-open range, in ascending order.
EngineScan(eng, from, to) ==
    SortBytes({k \in DOMAIN eng : BytesLeq(from, k) /\ BytesLess(k, to)})

\* Engine::scan_prefix(prefix): the keys starting with prefix, in ascending order.
EngineScanPrefix(eng, prefix) ==
    SortBytes({k \in DOMAIN eng : StartsWith(k, prefix)})

\* ------------------------------------------------------------- MVCC

\* is_visible without the active-set test.
IsVisibleIgnoresActive(st, version) == version < st.version

\* is_visible without the version test.
IsVisibleIgnoresNewer(st, version) == version \notin st.active_versions

\* TransactionState::is_visible
IsVisible(st, version) ==
    IF version \in st.active_versions THEN FALSE
    ELSE version < st.version

\* scan_active that finds no active transaction.
ScanActiveNone(eng) == {}

\* MvccTransaction::scan_active: the versions of all TxnActive cells.
ScanActive(eng) ==
    {DecodeKey(k).version : k \in {x \in DOMAIN eng : StartsWith(x, EncPrefixTxnActive)}}

\* begin that does not store the next version.
MvccBeginNoBump(eng) ==
    LET got == EngineGet(eng, EncNextVersion)
        next_version == IF IsSome(got) THEN UnBincodeU64(Unwrap(got)) ELSE 0
        active_versions == ScanActive(eng)
        eng2 == EngineSet(eng, EncTxnActive(next_version), <<>>)
    IN  [eng |-> eng2,
         state |-> [version |-> next_version, active_versions |-> active_versions]]

\* MvccTransaction::begin: [eng, state].
MvccBegin(eng) ==
    LET got == EngineGet(eng, EncNextVersion)
        next_version == IF IsSome(got) THEN UnBincodeU64(Unwrap(got)) ELSE 0
        eng1 == EngineSet(eng, EncNextVersion, BincodeU64(next_version + 1))
        active_versions == ScanActive(eng1)
        eng2 == EngineSet(eng1, EncTxnActive(next_version), <<>>)
    IN  [eng |-> eng2,
         state |-> [version |-> next_version, active_versions |-> active_versions]]

\* The version the next begin will allocate.
NextVersionOf(eng) == MvccBegin(eng).state.version

\* The loop of get: newest first, the first visible version's payload.
RECURSIVE GetLoop(_, _, _, _)
GetLoop(eng, st, keys, i) ==
    IF i = 0 THEN [err |-> "Ok", val |-> None]
    ELSE LET d == DecodeKey(keys[i])
         IN  IF d.tag # TagVersion THEN [err |-> "Internal", val |-> None]
             ELSE IF IsVisible(st, d.version)
                  THEN [err |-> "Ok", val |-> UnBincodeOption(eng[keys[i]])]
                  ELSE GetLoop(eng, st, keys, i - 1)

\* get without .rev(): oldest first.
RECURSIVE GetLoopForward(_, _, _, _)
GetLoopForward(eng, st, keys, i) ==
    IF i > Len(keys) THEN [err |-> "Ok", val |-> None]
    ELSE LET d == DecodeKey(keys[i])
         IN  IF IsVisible(st, d.version)
             THEN [err |-> "Ok", val |-> UnBincodeOption(eng[keys[i]])]
             ELSE GetLoopForward(eng, st, keys, i + 1)

MvccGetOldestFirst(eng, st, key) ==
    GetLoopForward(eng, st, EngineScan(eng, EncVersion(key, 0), EncVersion(key, st.version)), 1)

\* MvccTransaction::get: [err, val].
MvccGet(eng, st, key) ==
    LET from == EncVersion(key, 0)
        to == EncVersion(key, st.version)
        keys == EngineScan(eng, from, to)
    IN  GetLoop(eng, st, keys, Len(keys))

\* BTreeMap insert / remove on the scan's result map (raw key -> raw value).
MapInsert(m, k, v) == [x \in (DOMAIN m) \cup {k} |-> IF x = k THEN v ELSE m[x]]
MapRemove(m, k) == [x \in (DOMAIN m) \ {k} |-> m[x]]

\* The loop of scan_prefix that skips a tombstone instead of removing the key.
RECURSIVE ScanLoopKeepsDeleted(_, _, _, _, _)
ScanLoopKeepsDeleted(eng, st, keys, i, results) ==
    IF i > Len(keys) THEN [err |-> "Ok", map |-> results]
    ELSE LET d == DecodeKey(keys[i])
         IN  IF d.tag # TagVersion THEN [err |-> "Internal", map |-> results]
             ELSE IF IsVisible(st, d.version) /\ IsSome(UnBincodeOption(eng[keys[i]]))
                  THEN ScanLoopKeepsDeleted(eng, st, keys, i + 1,
                           MapInsert(results, d.key, Unwrap(UnBincodeOption(eng[keys[i]]))))
                  ELSE ScanLoopKeepsDeleted(eng, st, keys, i + 1, results)

\* The loop of scan_prefix over the engine's entries in ascending order.
RECURSIVE ScanLoop(_, _, _, _, _)
ScanLoop(eng, st, keys, i, results) ==
    IF i > Len(keys) THEN [err |-> "Ok", map |-> results]
    ELSE LET d == DecodeKey(keys[i])
         IN  IF d.tag # TagVersion THEN [err |-> "Internal", map |-> results]
             ELSE IF IsVisible(st, d.version)
                  THEN LET o == UnBincodeOption(eng[keys[i]])
                       IN  ScanLoop(eng, st, keys, i + 1,
                                    IF IsSome(o) THEN MapInsert(results, d.key, Unwrap(o))
                                    ELSE MapRemove(results, d.key))
                  ELSE ScanLoop(eng, st, keys, i + 1, results)

\* results.into_iter().collect(): the (key, value) pairs in ascending key order.
MapToList(m) ==
    LET ks == SortBytes(DOMAIN m)
    IN  [i \in 1 .. Len(ks) |-> [key |-> ks[i], value |-> m[ks[i]]]]

\* MvccTransaction::scan_prefix: [err, list].
MvccScanPrefix(eng, st, prefix) ==
    LET enc == EncPrefixVersion(prefix)
        enc_prefix == SubSeq(enc, 1, Len(enc) - 2)
        keys == EngineScanPrefix(eng, enc_prefix)
        r == ScanLoop(eng, st, keys, 1, << >>)
    IN  [err |-> r.err, list |-> IF r.err = "Ok" THEN MapToList(r.map) ELSE << >>]

\* The conflict scan starting above the own version whatever the active set is.
MinActiveAboveSelf(st) == st.version + 1

\* active_versions.iter().min().copied().unwrap_or(version + 1)
MinActive(st) ==
    IF st.active_versions = {} THEN st.version + 1
    ELSE CHOOSE m \in st.active_versions : \A x \in st.active_versions : m <= x

\* write_inner that writes its TxnWrite marker before it looks for a conflict.
WriteInnerMarksFirst(eng, st, key, value) ==
    LET from == EncVersion(key, MinActive(st))
        to == EncVersionMax(key)
        keys == EngineScan(eng, from, to)
        d == DecodeKey(keys[Len(keys)])
        marked == EngineSet(eng, EncTxnWrite(st.version, key), << >>)
    IN  IF keys # << >> /\ d.tag # TagVersion THEN [eng |-> eng, err |-> "Internal"]
        ELSE IF keys # << >> /\ ~IsVisible(st, d.version)
             THEN [eng |-> marked, err |-> "WriteConflict"]
             ELSE [eng |-> EngineSet(marked, EncVersion(key, st.version), BincodeOption(value)),
                   err |-> "Ok"]

\* MvccTransaction::write_inner: [eng, err]; value is an Option (None deletes).
WriteInner(eng, st, key, value) ==
    LET from == EncVersion(key, MinActive(st))
        to == EncVersionMax(key)
        keys == EngineScan(eng, from, to)
        d == DecodeKey(keys[Len(keys)])
    IN  IF keys # << >> /\ d.tag # TagVersion THEN [eng |-> eng, err |-> "Internal"]
        ELSE IF keys # << >> /\ ~IsVisible(st, d.version)
             THEN [eng |-> eng, err |-> "WriteConflict"]
             ELSE [eng |-> EngineSet(EngineSet(eng, EncTxnWrite(st.version, key), << >>),
                                     EncVersion(key, st.version), BincodeOption(value)),
                   err |-> "Ok"]

\* MvccTransaction::set and ::delete
MvccSet(eng, st, key, value) == WriteInner(eng, st, key, Some(value))
MvccDelete(eng, st, key) == WriteInner(eng, st, key, None)

\* engine.delete of every key of a list, in order.
RECURSIVE DeleteAll(_, _)
DeleteAll(eng, keys) ==
    IF keys = << >> THEN eng ELSE DeleteAll(EngineDelete(eng, Head(keys)), Tail(keys))

\* commit that leaves the TxnWrite markers in place.
MvccCommitKeepsMarkers(eng, st) == EngineDelete(eng, EncTxnActive(st.version))

\* MvccTransaction::commit: the engine afterwards.
MvccCommit(eng, st) ==
    LET txnwrite_keys == EngineScanPrefix(eng, EncPrefixTxnWrite(st.version))
    IN  EngineDelete(DeleteAll(eng, txnwrite_keys), EncTxnActive(st.version))

\* rollback that leaves the Version cells in place.
MvccRollbackKeepsVersions(eng, st) ==
    EngineDelete(DeleteAll(eng, EngineScanPrefix(eng, EncPrefixTxnWrite(st.version))),
                 EncTxnActive(st.version))

\* MvccTransaction::rollback: the engine afterwards.
MvccRollback(eng, st) ==
    LET txnwrite_keys == EngineScanPrefix(eng, EncPrefixTxnWrite(st.version))
        version_keys == [i \in 1 .. Len(txnwrite_keys) |->
                            EncVersion(DecodeKey(txnwrite_keys[i]).key, st.version)]
    IN  EngineDelete(DeleteAll(DeleteAll(eng, txnwrite_keys), version_keys),
                     EncTxnActive(st.version))

\* ------------------------------------------------------------- MVCC clients

\* The raw keys the clients use: a key, and a longer key with a 0 byte that has
\* the first as a prefix.
Keys == {<<1>>, <<1, 0>>}

\* The prefixes the clients scan.
Prefixes == {<<1>>, <<1, 0>>}

\* The value transaction h writes: its first byte names the writer.
ValueOf(h) == <<h + 1, 7>>

\* The transaction that wrote a value.
WriterOf(value) == value[1] - 1

\* No write of this key by this transaction so far.
NoWrite == <<"NoWrite">>

\* A handle before begin and after commit or rollback (the transaction is dropped).
\* wrote is history: the keys a rolled-back transaction had written.
Dropped(status, wrote) ==
    [status |-> status, version |-> 0, active_versions |-> {}, began_with |-> {}, wrote |-> wrote]

Active(h) == txns[h].status = "active"

\* The SQL sessions (one per client connection).
Sessions == {0, 1}

\* Engine::session: no transaction. A connected client at its prompt, no
\* response line in flight. dropped is history: the transaction the session
\* held when it was dropped.
NewSession ==
    [txn |-> None, failed |-> FALSE, conn |-> "open", client |-> "prompt",
     resp |-> << >>, dropped |-> None]

\* A DiskEngine on an empty log file: no byte in the file, no key in the
\* directory. current is history: key -> the value of its last set, None after
\* a delete or when it was never set.
NewDisk == [log |-> << >>, keydir |-> << >>, current |-> [k \in Keys |-> None]]

\* The key codec at rest: no key is being encoded or decoded.
NoCodec == [step |-> "idle"]

\* No rows are before an executor.
NoQuery == [step |-> "idle"]

\* No create_row is under way.
NoCalls == [h \in Handles |-> [pc |-> "idle"]]

NoCall == [op |-> "none", t |-> -1, key |-> << >>, value |-> None,
           err |-> "Ok", val |-> None, list |-> << >>]

Init ==
    /\ engine = << >>
    /\ txns = [h \in Handles |-> Dropped("none", {})]
    /\ written = [h \in Handles |-> [k \in Keys |-> NoWrite]]
    /\ last = NoCall
    /\ sessions = [s \in Sessions |-> NewSession]
    /\ codec = NoCodec
    /\ disk = NewDisk
    /\ query = NoQuery
    /\ calls = NoCalls

\* Mvcc::begin. began_with is history: the transactions that are in fact active.
Begin ==
    /\ NextVersionOf(engine) < MaxTxn
    /\ LET r == MvccBegin(engine)
       IN  /\ engine' = r.eng
           /\ txns' = [txns EXCEPT ![r.state.version] =
                          [status |-> "active", version |-> r.state.version,
                           active_versions |-> r.state.active_versions,
                           began_with |-> {g \in Handles : Active(g)}, wrote |-> {}]]
           /\ last' = [NoCall EXCEPT !.op = "begin", !.t = r.state.version]
    /\ UNCHANGED <<written, sessions, codec, disk, query, calls>>

\* MvccTransaction::set
Set(h, key) ==
    /\ Active(h)
    /\ LET r == MvccSet(engine, txns[h], key, ValueOf(h))
       IN  /\ engine' = r.eng
           /\ last' = [NoCall EXCEPT !.op = "set", !.t = h, !.key = key,
                                     !.value = Some(ValueOf(h)), !.err = r.err]
           /\ written' = IF r.err = "Ok"
                         THEN [written EXCEPT ![h][key] = Some(ValueOf(h))]
                         ELSE written
    /\ UNCHANGED <<txns, sessions, codec, disk, query, calls>>

\* MvccTransaction::delete
Delete(h, key) ==
    /\ Active(h)
    /\ LET r == MvccDelete(engine, txns[h], key)
       IN  /\ engine' = r.eng
           /\ last' = [NoCall EXCEPT !.op = "delete", !.t = h, !.key = key, !.err = r.err]
           /\ written' = IF r.err = "Ok"
                         THEN [written EXCEPT ![h][key] = None]
                         ELSE written
    /\ UNCHANGED <<txns, sessions, codec, disk, query, calls>>

\* MvccTransaction::get
Get(h, key) ==
    /\ Active(h)
    /\ LET r == MvccGet(engine, txns[h], key)
       IN  last' = [NoCall EXCEPT !.op = "get", !.t = h, !.key = key,
                                  !.err = r.err, !.val = r.val]
    /\ UNCHANGED <<engine, txns, written, sessions, codec, disk, query, calls>>

\* MvccTransaction::scan_prefix
ScanPrefix(h, prefix) ==
    /\ Active(h)
    /\ LET r == MvccScanPrefix(engine, txns[h], prefix)
       IN  last' = [NoCall EXCEPT !.op = "scan", !.t = h, !.key = prefix,
                                  !.err = r.err, !.list = r.list]
    /\ UNCHANGED <<engine, txns, written, sessions, codec, disk, query, calls>>

\* MvccTransaction::commit; the handle is dropped afterwards.
Commit(h) ==
    /\ Active(h)
    /\ engine' = MvccCommit(engine, txns[h])
    /\ txns' = [txns EXCEPT ![h] = Dropped("committed", {})]
    /\ last' = [NoCall EXCEPT !.op = "commit", !.t = h]
    /\ UNCHANGED <<written, sessions, codec, disk, query, calls>>

\* MvccTransaction::rollback; the handle is dropped afterwards.
Rollback(h) ==
    /\ Active(h)
    /\ engine' = MvccRollback(engine, txns[h])
    /\ txns' = [txns EXCEPT ![h] = Dropped("rolledback", {k \in Keys : written[h][k] # NoWrite})]
    /\ last' = [NoCall EXCEPT !.op = "rollback", !.t = h]
    /\ written' = [written EXCEPT ![h] = [k \in Keys |-> NoWrite]]
    /\ UNCHANGED <<sessions, codec, disk, query, calls>>

Next ==
    \/ Begin
    \/ \E h \in Handles, key \in Keys : Set(h, key)
    \/ \E h \in Handles, key \in Keys : Delete(h, key)
    \/ \E h \in Handles, key \in Keys : Get(h, key)
    \/ \E h \in Handles, prefix \in Prefixes : ScanPrefix(h, prefix)
    \/ \E h \in Handles : Commit(h)
    \/ \E h \in Handles : Rollback(h)

Spec == Init /\ [][Next]_vars

\* ------------------------------------------------------------- snapshot reads

\* The transactions whose writes a snapshot read of h may return, by the rule of
\* snapshot isolation: begun before h and no longer active when h began.
Before(h) == {w \in Handles : w < txns[h].version /\ w \notin txns[h].began_with}

\* What the history of writes says h reads at key k from the other transactions:
\* the last write of the newest transaction of Before(h) that wrote k.
SnapshotValue(h, k) ==
    LET ws == {w \in Before(h) : written[w][k] # NoWrite}
    IN  IF ws = {} THEN None
        ELSE written[CHOOSE m \in ws : \A x \in ws : x <= m][k]

IsRead == last.op \in {"get", "scan"}
IsWrite == last.op \in {"set", "delete"}

\* The values the most recent read returned.
Returned ==
    IF last.op = "get" THEN (IF IsSome(last.val) THEN {Unwrap(last.val)} ELSE {})
    ELSE IF last.op = "scan" THEN {last.list[i].value : i \in 1 .. Len(last.list)}
    ELSE {}

\* C1: no get and no scan_prefix of a transaction T returns a value written by a
\* transaction that was active when T began or whose version is greater than T's.
C1_SnapshotIsolation ==
    IsRead =>
        \A v \in Returned :
            /\ WriterOf(v) \notin txns[last.t].began_with
            /\ WriterOf(v) <= txns[last.t].version

\* C1's case: a read that returns a value of a key which a transaction that was
\* active at the reader's begin, or a newer one, has written.
C1_Witness ==
    /\ last.op = "get"
    /\ IsSome(last.val)
    /\ \E w \in Handles :
          /\ w # last.t
          /\ written[w][last.key] # NoWrite
          /\ (w \in txns[last.t].began_with \/ w > last.t)

\* T1 and T2 = h were concurrently active: T1 was active when h began, or began later.
Concurrent(t1, h) == t1 # h /\ (t1 \in txns[h].began_with \/ t1 > txns[h].version)

\* C2: when T1 and T2 are concurrently active and T1 has successfully written K
\* and has not rolled back, a set or delete of K by T2 returns WriteConflict,
\* whichever has the lower version, T1 still active or already committed.
C2_WriteWriteConflict ==
    (IsWrite /\ \E t1 \in Handles : Concurrent(t1, last.t) /\ written[t1][last.key] # NoWrite)
        => last.err = "WriteConflict"

\* C2's case: T2 writes a key that a concurrent T1 with the higher version wrote
\* and committed.
C2_Witness ==
    /\ IsWrite
    /\ last.err = "WriteConflict"
    /\ \E t1 \in Handles :
          /\ t1 > last.t
          /\ txns[t1].status = "committed"
          /\ written[t1][last.key] # NoWrite

\* C8: a set or delete of K by T fails with WriteConflict whenever the store holds
\* a version of K written by a transaction whose version is greater than T's.
C8_NoWriteOverNewer ==
    (IsWrite /\ \E w \in Handles : w > txns[last.t].version
                                    /\ EncVersion(last.key, w) \in DOMAIN engine)
        => last.err = "WriteConflict"

\* C8's case: the newer writer has committed and was never in T's active set.
C8_Witness ==
    /\ IsWrite
    /\ last.err = "WriteConflict"
    /\ \E w \in Handles :
          /\ w > last.t
          /\ txns[w].status = "committed"
          /\ EncVersion(last.key, w) \in DOMAIN engine
          /\ txns[last.t].active_versions = {}

\* The payload a scan result holds for key k (None when k is not listed).
ListValue(list, k) ==
    IF \E i \in 1 .. Len(list) : list[i].key = k
    THEN Some(list[CHOOSE i \in 1 .. Len(list) : list[i].key = k].value)
    ELSE None

\* C3: a transaction reads its own writes: after T sets K to x, T.get(K) returns
\* x and a scan of a prefix of K lists (K, x); after T deletes K, T.get(K)
\* returns none.
C3_ReadOwnWrites ==
    /\ (last.op = "get" /\ written[last.t][last.key] # NoWrite)
          => last.val = written[last.t][last.key]
    /\ last.op = "scan" =>
          \A k \in Keys :
              (StartsWith(k, last.key) /\ written[last.t][k] # NoWrite)
                  => ListValue(last.list, k) = written[last.t][k]

\* C4: a transaction that has already written K can set or delete K again
\* without WriteConflict as long as no other transaction has written K, whatever
\* transactions were active when it began; after it commits, later transactions
\* read its last write to K.
C4_RewriteOwnKey ==
    /\ [][\A h \in Handles, k \in Keys :
             ( /\ Set(h, k) \/ Delete(h, k)
               /\ written[h][k] # NoWrite
               /\ \A g \in Handles \ {h} : EncVersion(k, g) \notin DOMAIN engine )
                 => last'.err = "Ok"]_vars
    /\ [](last.op = "get" =>
             \A t \in Before(last.t) :
                 ( /\ txns[t].status = "committed"
                   /\ written[t][last.key] # NoWrite
                   /\ \A g \in Handles \ {t} : written[g][last.key] = NoWrite )
                     => last.val = written[t][last.key])

\* C5: after T rolls back the store holds no Version(K, T.v) entry, and a later
\* get or scan_prefix of a key the reader has not written itself returns what
\* the writes of the transactions that did not roll back give.
C5_RollbackAtomicity ==
    /\ \A k \in DOMAIN engine :
          DecodeKey(k).tag = TagVersion => txns[DecodeKey(k).version].status # "rolledback"
    /\ (last.op = "get" /\ written[last.t][last.key] = NoWrite)
          => last.val = SnapshotValue(last.t, last.key)
    /\ last.op = "scan" =>
          \A k \in Keys :
              (StartsWith(k, last.key) /\ written[last.t][k] = NoWrite)
                  => ListValue(last.list, k) = SnapshotValue(last.t, k)

\* C5's case: a transaction that began after T rolled back reads a key T had
\* written, and finds the older committed value.
C5_Witness ==
    /\ last.op = "get"
    /\ IsSome(last.val)
    /\ \E t \in Handles :
          /\ txns[t].status = "rolledback"
          /\ last.key \in txns[t].wrote
          /\ t < last.t
          /\ WriterOf(Unwrap(last.val)) < t

\* C6: while T does not itself write, T.get(K) and T.scan_prefix(P) return the
\* same result before and after any step of any other transaction.
C6_RepeatableRead ==
    [][\A h \in Handles :
          (Active(h) /\ txns'[h].status = "active" /\ written'[h] = written[h])
              => \/ engine' = engine /\ txns'[h] = txns[h]
                 \/ /\ \A k \in Keys :
                          MvccGet(engine', txns'[h], k) = MvccGet(engine, txns[h], k)
                    /\ \A p \in Prefixes :
                          MvccScanPrefix(engine', txns'[h], p)
                              = MvccScanPrefix(engine, txns[h], p)]_vars

\* C6's case: T, which has written nothing, reads a key again after a
\* concurrent transaction wrote it and committed.
C6_Witness ==
    /\ last.op = "get"
    /\ \A k \in Keys : written[last.t][k] = NoWrite
    /\ \E w \in Handles :
          /\ Concurrent(w, last.t)
          /\ txns[w].status = "committed"
          /\ written[w][last.key] # NoWrite
          /\ last.val # written[w][last.key]

\* The newest committed transaction before h's begin that wrote k.
LastCommitter(h, t, k) ==
    /\ t \in Before(h)
    /\ txns[t].status = "committed"
    /\ written[t][k] # NoWrite
    /\ \A w \in Before(h) : (w > t /\ txns[w].status = "committed") => written[w][k] = NoWrite

\* C7: after T commits, a transaction that begins afterwards reads T's last write
\* to K (the value, or absent after a delete), provided no newer transaction that
\* committed before the reader began has written K.
C7_CommittedVisible ==
    /\ last.op = "get" =>
          \A t \in Handles : LastCommitter(last.t, t, last.key) => last.val = written[t][last.key]
    /\ last.op = "scan" =>
          \A t \in Handles, k \in Keys :
              (StartsWith(k, last.key) /\ LastCommitter(last.t, t, k))
                  => ListValue(last.list, k) = written[t][k]

\* C7's case: the reader finds the delete of a committed transaction that
\* overwrote an older committed value.
C7_Witness ==
    /\ last.op = "get"
    /\ last.val = None
    /\ \E t \in Handles, u \in Handles :
          /\ u < t
          /\ LastCommitter(last.t, t, last.key)
          /\ written[t][last.key] = None
          /\ txns[u].status = "committed"
          /\ IsSome(written[u][last.key])

\* ------------------------------------------------------------- SQL values and keys

\* sql::types::Value (Float is left out: its key encoding is todo!()).
Null == <<"Null">>
Boolean(b) == <<"Boolean", b>>
Integer(i) == <<"Integer", i>>
String(str) == <<"String", str>>

\* Value::datatype
Datatype(v) == IF v = Null THEN None ELSE Some(v[1])

\* i64::to_be_bytes for a 32-bit value: sign extension, then the four low bytes.
SerializeI64(v) ==
    LET hi == IF v < 0 THEN 255 ELSE 0
    IN  <<hi, hi, hi, hi,
          (v \div 16777216) % 256, (v \div 65536) % 256, (v \div 256) % 256, v % 256>>

\* serialize_bool
SerializeBool(b) == <<IF b THEN 1 ELSE 0>>

\* The key encoding of a Value: the variant index, then the payload.
SerializeValue(v) ==
    CASE v[1] = "Null" -> <<0>>
      [] v[1] = "Boolean" -> <<1>> \o SerializeBool(v[2])
      [] v[1] = "Integer" -> <<2>> \o SerializeI64(v[2])
      [] v[1] = "String" -> <<4>> \o SerializeStr(v[2])

\* Key::Table / Key::Row / Key::Index and KeyPrefix::Row, encoded.
EncKeyTable(name) == <<0>> \o SerializeStr(name)
EncKeyRow(name, pk) == <<1>> \o SerializeStr(name) \o SerializeValue(pk)
EncKeyIndex(name, col, v) == <<2>> \o SerializeStr(name) \o SerializeStr(col) \o SerializeValue(v)
EncKeyPrefixRow(name) == <<1>> \o SerializeStr(name)

\* bincode of a Value: the variant index, then the payload (widths not modelled).
BincodeValue(v) ==
    CASE v[1] = "Null" -> <<0>>
      [] v[1] = "Boolean" -> <<1, IF v[2] THEN 1 ELSE 0>>
      [] v[1] = "Integer" -> <<2, v[2]>>
      [] v[1] = "String" -> <<4, Len(v[2])>> \o v[2]

\* bincode of n values read from the front of b: [vals, rest].
RECURSIVE UnBincodeValues(_, _)
UnBincodeValues(b, n) ==
    IF n = 0 THEN [vals |-> << >>, rest |-> b]
    ELSE LET one == CASE b[1] = 0 -> [v |-> Null, len |-> 1]
                      [] b[1] = 1 -> [v |-> Boolean(b[2] = 1), len |-> 2]
                      [] b[1] = 2 -> [v |-> Integer(b[2]), len |-> 2]
                      [] b[1] = 4 -> [v |-> String(SubSeq(b, 3, 2 + b[2])), len |-> 2 + b[2]]
             more == UnBincodeValues(SubSeq(b, one.len + 1, Len(b)), n - 1)
         IN  [vals |-> <<one.v>> \o more.vals, rest |-> more.rest]

\* bincode::serialize(&row) and its inverse: the length, then the values.
RECURSIVE BincodeValues(_)
BincodeValues(vals) ==
    IF vals = << >> THEN << >> ELSE BincodeValue(Head(vals)) \o BincodeValues(Tail(vals))

BincodeRow(row) == <<Len(row)>> \o BincodeValues(row)
UnBincodeRow(b) == UnBincodeValues(Tail(b), b[1]).vals

\* A HashSet<Value> listed in one of its iteration orders.
RECURSIVE SetToSeq(_)
SetToSeq(S) ==
    IF S = {} THEN << >>
    ELSE LET x == CHOOSE y \in S : TRUE IN <<x>> \o SetToSeq(S \ {x})

\* bincode of an index bucket (HashSet<Value>) and its inverse.
BincodeIndex(index) == <<Cardinality(index)>> \o BincodeValues(SetToSeq(index))
UnBincodeIndex(b) ==
    LET vals == UnBincodeValues(Tail(b), b[1]).vals IN {vals[i] : i \in 1 .. Len(vals)}

\* ------------------------------------------------------------- SQL binding (KVTransaction)

\* The table the clients use: a (String, primary key) and b (String, nullable,
\* indexed); names are the bytes of "t", "a", "b".
Table ==
    [name |-> <<116>>,
     columns |-> << [name |-> <<97>>, datatype |-> "String", nullable |-> FALSE,
                     default |-> None, primary_key |-> TRUE, index |-> FALSE],
                    [name |-> <<98>>, datatype |-> "String", nullable |-> TRUE,
                     default |-> Some(Null), primary_key |-> FALSE, index |-> TRUE] >>]

\* The row check at the head of create_row, column by column from i.
RECURSIVE ValidateRow(_, _, _)
ValidateRow(table, row, i) ==
    IF i > Len(table.columns) THEN "Ok"
    ELSE LET col == table.columns[i]
             dt == Datatype(row[i])
         IN  IF dt = None /\ col.nullable THEN ValidateRow(table, row, i + 1)
             ELSE IF dt = None THEN "Internal"
             ELSE IF Unwrap(dt) # col.datatype THEN "Internal"
             ELSE ValidateRow(table, row, i + 1)

\* Table::get_primary_key: the value at the first primary-key column.
GetPrimaryKey(table, row) ==
    LET pos == CHOOSE i \in 1 .. Len(table.columns) :
                   /\ table.columns[i].primary_key
                   /\ \A j \in 1 .. (i - 1) : ~table.columns[j].primary_key
    IN  row[pos]

\* KVTransaction::read_by_pk: [err, val], val an Option<Row>.
KvReadByPk(eng, st, table_name, pk) ==
    LET g == MvccGet(eng, st, EncKeyRow(table_name, pk))
    IN  [err |-> g.err,
         val |-> IF g.err = "Ok" /\ IsSome(g.val) THEN Some(UnBincodeRow(Unwrap(g.val))) ELSE None]

\* KVTransaction::load_index: [err, index]; an absent bucket is the empty set.
KvLoadIndex(eng, st, table_name, col_name, col_value) ==
    LET g == MvccGet(eng, st, EncKeyIndex(table_name, col_name, col_value))
    IN  [err |-> g.err,
         index |-> IF g.err = "Ok" /\ IsSome(g.val) THEN UnBincodeIndex(Unwrap(g.val)) ELSE {}]

\* KVTransaction::save_index: [eng, err]; an empty bucket is deleted.
KvSaveIndex(eng, st, table_name, col_name, col_value, index) ==
    LET key == EncKeyIndex(table_name, col_name, col_value)
    IN  IF index = {} THEN MvccDelete(eng, st, key)
        ELSE MvccSet(eng, st, key, BincodeIndex(index))

\* load_index, index.insert(pk), save_index: [eng, err].
IndexInsert(eng, st, table_name, col_name, col_value, pk) ==
    LET ld == KvLoadIndex(eng, st, table_name, col_name, col_value)
    IN  IF ld.err # "Ok" THEN [eng |-> eng, err |-> ld.err]
        ELSE KvSaveIndex(eng, st, table_name, col_name, col_value, ld.index \cup {pk})

\* load_index, index.remove(pk), save_index: [eng, err].
IndexRemove(eng, st, table_name, col_name, col_value, pk) ==
    LET ld == KvLoadIndex(eng, st, table_name, col_name, col_value)
    IN  IF ld.err # "Ok" THEN [eng |-> eng, err |-> ld.err]
        ELSE KvSaveIndex(eng, st, table_name, col_name, col_value, ld.index \ {pk})

\* The index loop of create_row from column i: add pk to the bucket of row[i].
\* CreateIndexNext carries on after the save of column i (the ? on save_index).
RECURSIVE CreateIndexLoop(_, _, _, _, _, _)
CreateIndexNext(st, table, row, pk, i, saved) ==
    IF saved.err # "Ok" THEN saved
    ELSE CreateIndexLoop(saved.eng, st, table, row, pk, i + 1)

CreateIndexLoop(eng, st, table, row, pk, i) ==
    IF i > Len(table.columns) THEN [eng |-> eng, err |-> "Ok"]
    ELSE IF ~table.columns[i].index THEN CreateIndexLoop(eng, st, table, row, pk, i + 1)
    ELSE CreateIndexNext(st, table, row, pk, i,
             IndexInsert(eng, st, table.name, table.columns[i].name, row[i], pk))

\* create_row after txn.set of the row: the index loop unless the set failed.
CreateRowIndex(st, table, row, pk, stored) ==
    IF stored.err # "Ok" THEN stored
    ELSE CreateIndexLoop(stored.eng, st, table, row, pk, 1)

\* create_row after txn.get(id): the duplicate check, then txn.set of the row.
CreateRowStore(eng, st, table, row, pk, got) ==
    IF got.err # "Ok" THEN [eng |-> eng, err |-> got.err]
    ELSE IF IsSome(got.val) THEN [eng |-> eng, err |-> "Internal"]
    ELSE CreateRowIndex(st, table, row, pk,
             MvccSet(eng, st, EncKeyRow(table.name, pk), BincodeRow(row)))

\* KVTransaction::create_row: [eng, err].
KvCreateRow(eng, st, table, row) ==
    IF ValidateRow(table, row, 1) # "Ok" THEN [eng |-> eng, err |-> "Internal"]
    ELSE CreateRowStore(eng, st, table, row, GetPrimaryKey(table, row),
             MvccGet(eng, st, EncKeyRow(table.name, GetPrimaryKey(table, row))))

\* The index loop of delete_row from column i: drop pk from the bucket of the
\* stored row's value. DeleteIndexRead carries on after read_by_pk,
\* DeleteIndexNext after the save.
RECURSIVE DeleteIndexLoop(_, _, _, _, _)
DeleteIndexNext(st, table, pk, i, saved) ==
    IF saved.err # "Ok" THEN saved
    ELSE DeleteIndexLoop(saved.eng, st, table, pk, i + 1)

DeleteIndexRead(eng, st, table, pk, i, rd) ==
    IF rd.err # "Ok" THEN [eng |-> eng, err |-> rd.err]
    ELSE IF ~IsSome(rd.val) THEN DeleteIndexLoop(eng, st, table, pk, i + 1)
    ELSE DeleteIndexNext(st, table, pk, i,
             IndexRemove(eng, st, table.name, table.columns[i].name, Unwrap(rd.val)[i], pk))

DeleteIndexLoop(eng, st, table, pk, i) ==
    IF i > Len(table.columns) THEN [eng |-> eng, err |-> "Ok"]
    ELSE IF ~table.columns[i].index THEN DeleteIndexLoop(eng, st, table, pk, i + 1)
    ELSE DeleteIndexRead(eng, st, table, pk, i, KvReadByPk(eng, st, table.name, pk))

\* delete_row after the index loop: txn.delete of the row key.
DeleteRowStore(st, table, pk, indexed) ==
    IF indexed.err # "Ok" THEN indexed
    ELSE MvccDelete(indexed.eng, st, EncKeyRow(table.name, pk))

\* KVTransaction::delete_row: [eng, err].
KvDeleteRow(eng, st, table, pk) ==
    DeleteRowStore(st, table, pk, DeleteIndexLoop(eng, st, table, pk, 1))

\* The index loop of update_row from column i (the primary key is unchanged):
\* move pk from the bucket of the stored row's value to the bucket of row[i].
\* UpdateIndexRead carries on after read_by_pk, UpdateIndexInsert after the save
\* of the old bucket, UpdateIndexNext after the save of the new one.
RECURSIVE UpdateIndexLoop(_, _, _, _, _, _)
UpdateIndexNext(st, table, old_pk, row, i, saved) ==
    IF saved.err # "Ok" THEN saved
    ELSE UpdateIndexLoop(saved.eng, st, table, old_pk, row, i + 1)

UpdateIndexInsert(st, table, old_pk, row, i, removed) ==
    IF removed.err # "Ok" THEN removed
    ELSE UpdateIndexNext(st, table, old_pk, row, i,
             IndexInsert(removed.eng, st, table.name, table.columns[i].name, row[i],
                         GetPrimaryKey(table, row)))

UpdateIndexRead(eng, st, table, old_pk, row, i, rd) ==
    IF rd.err # "Ok" THEN [eng |-> eng, err |-> rd.err]
    ELSE IF ~IsSome(rd.val) THEN UpdateIndexLoop(eng, st, table, old_pk, row, i + 1)
    ELSE IF Unwrap(rd.val)[i] = row[i] THEN UpdateIndexLoop(eng, st, table, old_pk, row, i + 1)
    ELSE UpdateIndexInsert(st, table, old_pk, row, i,
             IndexRemove(eng, st, table.name, table.columns[i].name, Unwrap(rd.val)[i], old_pk))

UpdateIndexLoop(eng, st, table, old_pk, row, i) ==
    IF i > Len(table.columns) THEN [eng |-> eng, err |-> "Ok"]
    ELSE IF ~table.columns[i].index THEN UpdateIndexLoop(eng, st, table, old_pk, row, i + 1)
    ELSE UpdateIndexRead(eng, st, table, old_pk, row, i,
             KvReadByPk(eng, st, table.name, old_pk))

\* update_row with a changed primary key, after delete_row: create_row.
UpdateRowCreate(st, table, row, deleted) ==
    IF deleted.err # "Ok" THEN deleted
    ELSE KvCreateRow(deleted.eng, st, table, row)

\* update_row with the same primary key, after the index loop: txn.set of the row.
UpdateRowStore(st, table, row, indexed) ==
    IF indexed.err # "Ok" THEN indexed
    ELSE MvccSet(indexed.eng, st, EncKeyRow(table.name, GetPrimaryKey(table, row)),
                 BincodeRow(row))

\* KVTransaction::update_row: [eng, err].
KvUpdateRow(eng, st, table, old_pk, row) ==
    IF old_pk # GetPrimaryKey(table, row)
    THEN UpdateRowCreate(st, table, row, KvDeleteRow(eng, st, table, old_pk))
    ELSE UpdateRowStore(st, table, row, UpdateIndexLoop(eng, st, table, old_pk, row, 1))

\* ------------------------------------------------------------- SQL binding clients

\* The number of transactions the clients of the SQL binding begin.
MaxKvTxn == 2

\* The primary keys the clients use ('x', 'y') and the values of column b.
PkValues == {String(<<120>>), String(<<121>>)}
ColValues == {String(<<120>>), Null}

\* The rows the clients write: ('x', 'x'), ('x', NULL), ('y', 'x').
Rows == {<<String(<<120>>), String(<<120>>)>>, <<String(<<120>>), Null>>,
         <<String(<<121>>), String(<<120>>)>>}

\* Rows create_row rejects: a null primary key, a value of the wrong type.
InvalidRows == {<<Null, Null>>, <<String(<<120>>), Integer(1)>>}

\* KVTransaction::create_row
CreateRow(h, row) ==
    /\ Active(h)
    /\ LET r == KvCreateRow(engine, txns[h], Table, row)
       IN  /\ engine' = r.eng
           /\ last' = [NoCall EXCEPT !.op = "create_row", !.t = h, !.err = r.err,
                                     !.key = IF r.err = "Ok"
                                             THEN EncKeyRow(Table.name, GetPrimaryKey(Table, row))
                                             ELSE << >>]
    /\ UNCHANGED <<txns, written, sessions, codec, disk, query, calls>>

\* KVTransaction::update_row
UpdateRow(h, old_pk, row) ==
    /\ Active(h)
    /\ LET r == KvUpdateRow(engine, txns[h], Table, old_pk, row)
       IN  /\ engine' = r.eng
           /\ last' = [NoCall EXCEPT !.op = "update_row", !.t = h, !.err = r.err]
    /\ UNCHANGED <<txns, written, sessions, codec, disk, query, calls>>

\* KVTransaction::delete_row
DeleteRow(h, pk) ==
    /\ Active(h)
    /\ LET r == KvDeleteRow(engine, txns[h], Table, pk)
       IN  /\ engine' = r.eng
           /\ last' = [NoCall EXCEPT !.op = "delete_row", !.t = h, !.err = r.err]
    /\ UNCHANGED <<txns, written, sessions, codec, disk, query, calls>>

\* KVEngine::begin, for at most MaxKvTxn transactions.
KvBegin == NextVersionOf(engine) < MaxKvTxn /\ Begin

NextKV ==
    \/ KvBegin
    \/ \E h \in Handles, row \in Rows \cup InvalidRows : CreateRow(h, row)
    \/ \E h \in Handles, old_pk \in PkValues, row \in Rows : UpdateRow(h, old_pk, row)
    \/ \E h \in Handles, pk \in PkValues : DeleteRow(h, pk)
    \/ \E h \in Handles : Commit(h)
    \/ \E h \in Handles : Rollback(h)

SpecKV == Init /\ [][NextKV]_vars

\* The snapshots a read can be made with: every active transaction, and the
\* transaction a begin would start now.
Readers ==
    {[version |-> txns[h].version, active_versions |-> txns[h].active_versions] :
        h \in {g \in Handles : Active(g)}}
    \cup {MvccBegin(engine).state}

\* C9: within one transaction, create_row(T, r1) directly followed by
\* create_row(T, r2) with the same primary key fails with an Internal error on
\* the second call and leaves r1 as the stored row.
C9_DuplicatePrimaryKey ==
    [][\A h \in Handles, r2 \in Rows :
          ( /\ last.op = "create_row" /\ last.t = h /\ last.err = "Ok"
            /\ last.key = EncKeyRow(Table.name, GetPrimaryKey(Table, r2))
            /\ CreateRow(h, r2) )
              => /\ last'.err = "Internal"
                 /\ engine'[EncVersion(last.key, txns[h].version)]
                        = engine[EncVersion(last.key, txns[h].version)]]_vars

\* C10: every primary key listed in an Index(T, b, v) bucket visible to a reader
\* refers to a Row(T, pk) visible to that reader whose value in column b is v.
C10_IndexConsistency ==
    \A st \in Readers, v \in ColValues :
        \A pk \in KvLoadIndex(engine, st, Table.name, Table.columns[2].name, v).index :
            LET rd == KvReadByPk(engine, st, Table.name, pk)
            IN  IsSome(rd.val) /\ Unwrap(rd.val)[2] = v

\* ------------------------------------------------------------- tables and scans

\* The value of a computation made once: the element of a one-element set.
Only(S) == CHOOSE x \in S : TRUE

\* A second table whose name, "t1", has the name of Table as a proper prefix.
Table1 == [Table EXCEPT !.name = <<116, 49>>]

Tables == {Table, Table1}

\* A table u of three columns: the primary key a, b NOT NULL without default,
\* c with the default 'v'.
TableU ==
    [name |-> <<117>>,
     columns |-> << [name |-> <<97>>, datatype |-> "String", nullable |-> FALSE,
                     default |-> None, primary_key |-> TRUE, index |-> FALSE],
                    [name |-> <<98>>, datatype |-> "String", nullable |-> FALSE,
                     default |-> None, primary_key |-> FALSE, index |-> FALSE],
                    [name |-> <<99>>, datatype |-> "String", nullable |-> TRUE,
                     default |-> Some(String(<<118>>)), primary_key |-> FALSE,
                     index |-> FALSE] >>]

\* The tables handed to create_table: the three above, t1 with a default for b,
\* and tables that Table::validate refuses: no column, no primary key, two
\* primary keys, a nullable primary key, a default of another type than its
\* column.
SchemaTables ==
    Tables
    \cup {TableU,
          [Table1 EXCEPT !.columns[2].default = Some(String(<<118>>))],
          [Table EXCEPT !.columns = << >>],
          [Table EXCEPT !.columns[1].primary_key = FALSE],
          [Table EXCEPT !.columns[2].primary_key = TRUE, !.columns[2].nullable = FALSE],
          [Table EXCEPT !.columns[1].nullable = TRUE],
          [Table EXCEPT !.columns[2].default = Some(Integer(1))]}

\* bincode of a Column and of a Table: length-prefixed name, then the fields.
BincodeColumn(col) ==
    <<Len(col.name)>> \o col.name
        \o <<IF col.datatype = "String" THEN 3 ELSE 1,
             IF col.nullable THEN 1 ELSE 0>>
        \o (IF IsSome(col.default) THEN <<1>> \o BincodeValue(Unwrap(col.default)) ELSE <<0>>)
        \o <<IF col.primary_key THEN 1 ELSE 0,
             IF col.index THEN 1 ELSE 0>>

RECURSIVE BincodeColumns(_, _)
BincodeColumns(columns, i) ==
    IF i > Len(columns) THEN << >>
    ELSE BincodeColumn(columns[i]) \o BincodeColumns(columns, i + 1)

BincodeTable(table) ==
    <<Len(table.name)>> \o table.name \o <<Len(table.columns)>>
        \o BincodeColumns(table.columns, 1)

\* bincode::deserialize::<Table>: the table whose encoding the bytes are.
UnBincodeTable(b) == CHOOSE t \in SchemaTables : BincodeTable(t) = b

\* The closure of get_table over the result of txn.get: deserialize when present.
DeserializeTable(g) ==
    [err |-> g.err,
     val |-> IF g.err = "Ok" /\ IsSome(g.val) THEN Some(UnBincodeTable(Unwrap(g.val)))
             ELSE None]

\* KVTransaction::get_table: [err, val], val an Option<Table>.
KvGetTable(eng, st, table_name) ==
    Only({DeserializeTable(g) : g \in {MvccGet(eng, st, EncKeyTable(table_name))}})

\* The ok_or of must_get_table over the result of get_table.
OkOrMissing(g) ==
    IF g.err = "Ok" /\ ~IsSome(g.val) THEN [err |-> "Internal", val |-> None] ELSE g

\* Transaction::must_get_table: an absent table is an Internal error.
KvMustGetTable(eng, st, table_name) ==
    Only({OkOrMissing(g) : g \in {KvGetTable(eng, st, table_name)}})

\* Table::validate: some column, exactly one primary key, the primary key not
\* nullable, and every default that is not NULL of the type of its column.
TableValidate(table) ==
    LET pks == {i \in 1 .. Len(table.columns) : table.columns[i].primary_key}
    IN  IF Len(table.columns) = 0 THEN "Internal"
        ELSE IF Cardinality(pks) # 1 THEN "Internal"
        ELSE IF \E i \in pks : table.columns[i].nullable THEN "Internal"
        ELSE IF \E i \in 1 .. Len(table.columns) :
                   /\ IsSome(table.columns[i].default)
                   /\ IsSome(Datatype(Unwrap(table.columns[i].default)))
                   /\ Unwrap(Datatype(Unwrap(table.columns[i].default)))
                         # table.columns[i].datatype
             THEN "Internal"
        ELSE "Ok"

\* create_table after its get_table: refuse an existing or invalid table, else set.
CreateTableStore(eng, st, table, g) ==
    IF g.err # "Ok" THEN [eng |-> eng, err |-> g.err]
    ELSE IF IsSome(g.val) THEN [eng |-> eng, err |-> "Internal"]
    ELSE IF TableValidate(table) # "Ok" THEN [eng |-> eng, err |-> "Internal"]
    ELSE MvccSet(eng, st, EncKeyTable(table.name), BincodeTable(table))

\* KVTransaction::create_table: [eng, err].
KvCreateTable(eng, st, table) ==
    Only({CreateTableStore(eng, st, table, g) : g \in {KvGetTable(eng, st, table.name)}})

\* enum Expression: a column, a constant, a comparison, an aggregate call.
FieldExpr(name) == [kind |-> "Field", name |-> name]
ConstsExpr(v) == [kind |-> "Consts", value |-> v]
OperationExpr(op, l, r) == [kind |-> "Operation", op |-> op, l |-> l, r |-> r]
FunctionExpr(name, col) == [kind |-> "Function", name |-> name, col |-> col]

\* Value::Float of the fraction n / d, d > 0, in lowest terms (the rounding of
\* f64 is not modelled).
RECURSIVE Gcd(_, _)
Gcd(a, b) == IF b = 0 THEN a ELSE Gcd(b, a % b)
Float(n, d) == <<"Float", n \div Gcd(n, d), d \div Gcd(n, d)>>

\* A number as the fraction [n, d] of its value.
Fraction(v) == IF v[1] = "Integer" THEN [n |-> v[2], d |-> 1] ELSE [n |-> v[2], d |-> v[3]]

IsNumber(v) == v[1] \in {"Integer", "Float"}

\* The comparison of Operation::Equal on two values: Null when either is Null,
\* numbers by their value, <<"Err">> for two types that do not compare.
EqualValues(lval, rval) ==
    IF lval = Null \/ rval = Null THEN Null
    ELSE IF IsNumber(lval) /\ IsNumber(rval)
    THEN Boolean(Fraction(lval).n * Fraction(rval).d = Fraction(rval).n * Fraction(lval).d)
    ELSE IF lval[1] = rval[1] THEN Boolean(lval = rval)
    ELSE <<"Err">>

\* The comparison of Operation::LessThan on two values: false < true, numbers
\* by value, strings by their bytes.
LessThanValues(lval, rval) ==
    IF lval = Null \/ rval = Null THEN Null
    ELSE IF IsNumber(lval) /\ IsNumber(rval)
    THEN Boolean(Fraction(lval).n * Fraction(rval).d < Fraction(rval).n * Fraction(lval).d)
    ELSE IF lval[1] # rval[1] THEN <<"Err">>
    ELSE IF lval[1] = "Boolean" THEN Boolean(~lval[2] /\ rval[2])
    ELSE Boolean(BytesLess(lval[2], rval[2]))

\* The match of an Operation on the values of its two operands, an error of
\* either operand passed on.
OperationValue(op, lval, rval) ==
    IF lval = <<"Err">> \/ rval = <<"Err">> THEN <<"Err">>
    ELSE IF op = "Equal" THEN EqualValues(lval, rval)
    ELSE IF op = "LessThan" THEN LessThanValues(lval, rval)
    ELSE LessThanValues(rval, lval)

\* The first position of a name in a list of columns, 0 when there is none.
Position(cols, name) ==
    IF \E i \in 1 .. Len(cols) : cols[i] = name
    THEN CHOOSE i \in 1 .. Len(cols) :
             cols[i] = name /\ \A j \in 1 .. (i - 1) : cols[j] # name
    ELSE 0

\* evaluate_expr: a Value, or <<"Err">> for an unknown column, operands that
\* cannot be compared or an unsupported expression. The right operand is
\* evaluated with the two sides exchanged.
RECURSIVE EvaluateExpr(_, _, _, _, _)
EvaluateExpr(expr, lcols, lrow, rcols, rrow) ==
    IF expr.kind = "Field"
    THEN IF Position(lcols, expr.name) = 0 THEN <<"Err">>
         ELSE lrow[Position(lcols, expr.name)]
    ELSE IF expr.kind = "Consts" THEN expr.value
    ELSE IF expr.kind = "Operation"
    THEN OperationValue(expr.op, EvaluateExpr(expr.l, lcols, lrow, rcols, rrow),
                        EvaluateExpr(expr.r, rcols, rrow, lcols, lrow))
    ELSE <<"Err">>

\* The names of the columns of a table.
ColumnNames(table) == [i \in 1 .. Len(table.columns) |-> table.columns[i].name]

\* What scan_table does with a row given the value of the filter on it:
\* "keep", "skip" or "error".
FilterVerdict(v) ==
    IF v = Null \/ v = Boolean(FALSE) THEN "skip"
    ELSE IF v = Boolean(TRUE) THEN "keep"
    ELSE "error"

\* The verdict of scan_table on one deserialized row.
RowVerdict(table, filter, row) ==
    IF IsSome(filter)
    THEN FilterVerdict(EvaluateExpr(Unwrap(filter), ColumnNames(table), row,
                                    ColumnNames(table), row))
    ELSE "keep"

\* The rows of the scanned pairs, deserialized: bincode::deserialize(&result.value).
ScannedRows(results) == [i \in 1 .. Len(results) |-> UnBincodeRow(results[i].value)]

\* The loop of scan_table over the deserialized rows: [err, rows].
RECURSIVE ScanTableLoop(_, _, _, _, _)
ScanTableLoop(table, filter, scanned, i, rows) ==
    IF i > Len(scanned) THEN [err |-> "Ok", rows |-> rows]
    ELSE IF RowVerdict(table, filter, scanned[i]) = "error"
    THEN [err |-> "Internal", rows |-> << >>]
    ELSE ScanTableLoop(table, filter, scanned, i + 1,
                       IF RowVerdict(table, filter, scanned[i]) = "keep"
                       THEN Append(rows, scanned[i]) ELSE rows)

\* scan_table after its scan_prefix.
ScanTableRows(table, filter, scan) ==
    IF scan.err # "Ok" THEN [err |-> scan.err, rows |-> << >>]
    ELSE ScanTableLoop(table, filter, ScannedRows(scan.list), 1, << >>)

\* KVTransaction::scan_table: [err, rows]; filter is an Option<Expression>.
KvScanTable(eng, st, table, filter) ==
    Only({ScanTableRows(table, filter, scan) :
             scan \in {MvccScanPrefix(eng, st, EncKeyPrefixRow(table.name))}})

\* ------------------------------------------------------------- SQL sessions

\* The statements the parser yields. ParseError stands for a line that
\* Parser::parse rejects.
BeginStmt == [kind |-> "Begin"]
CommitStmt == [kind |-> "Commit"]
RollbackStmt == [kind |-> "Rollback"]
ParseError == [kind |-> "ParseError"]
CreateTableStmt(table) == [kind |-> "CreateTable", table |-> table]
InsertValuesStmt(table_name, columns, values) ==
    [kind |-> "Insert", table_name |-> table_name, columns |-> columns, values |-> values]
InsertStmt(table_name, row) == InsertValuesStmt(table_name, << >>, <<row>>)
SelectStmt(table_name, filter) ==
    [kind |-> "Select", table_name |-> table_name, filter |-> filter]

\* Node::Scan
ScanNode(table_name, filter) == [kind |-> "Scan", table_name |-> table_name, filter |-> filter]

\* build_scan after must_get_table: the column of the filter is not indexed in
\* the tables used here, so the node is a Scan.
BuildScanNode(table_name, filter, g) ==
    IF g.err # "Ok" THEN [err |-> g.err, node |-> None]
    ELSE [err |-> "Ok", node |-> ScanNode(table_name, filter)]

\* Planner::build_scan: a filter `field = value` makes the planner look the
\* table up (to choose between Scan and IndexScan), which fails when the
\* transaction does not see the table.
BuildScan(eng, st, table_name, filter) ==
    IF IsSome(filter)
    THEN Only({BuildScanNode(table_name, filter, g) :
                  g \in {KvMustGetTable(eng, st, table_name)}})
    ELSE [err |-> "Ok", node |-> ScanNode(table_name, filter)]

\* Plan::build: [err, node].
PlanBuild(eng, st, stmt) ==
    IF stmt.kind = "Select" THEN BuildScan(eng, st, stmt.table_name, stmt.filter)
    ELSE IF stmt.kind \in {"CreateTable", "Insert"} THEN [err |-> "Ok", node |-> stmt]
    ELSE [err |-> "Internal", node |-> None]

\* pad_row: the values as given, then the default of every column after them;
\* [err, row].
PadRow(table, row) ==
    IF \E i \in (Len(row) + 1) .. Len(table.columns) : ~IsSome(table.columns[i].default)
    THEN [err |-> "Internal", row |-> << >>]
    ELSE [err |-> "Ok",
          row |-> row \o [i \in 1 .. (Len(table.columns) - Len(row)) |->
                             Unwrap(table.columns[Len(row) + i].default)]]

\* The HashMap inputs of make_row: column name -> value, a later entry of the
\* same name replacing an earlier one.
RECURSIVE MakeRowInputs(_, _, _, _)
MakeRowInputs(columns, value, i, inputs) ==
    IF i > Len(columns) THEN inputs
    ELSE MakeRowInputs(columns, value, i + 1, MapInsert(inputs, columns[i], value[i]))

\* make_row that takes the values in the order of the table's columns, whatever
\* the column list names.
MakeRowPositional(table, columns, value) ==
    IF Len(columns) # Len(value) THEN [err |-> "Internal", row |-> << >>]
    ELSE PadRow(table, value)

\* make_row: for every column of the table the value given under its name,
\* else its default; [err, row].
MakeRow(table, columns, value) ==
    IF Len(columns) # Len(value) THEN [err |-> "Internal", row |-> << >>]
    ELSE LET inputs == MakeRowInputs(columns, value, 1, << >>)
         IN  IF \E i \in 1 .. Len(table.columns) :
                    /\ table.columns[i].name \notin DOMAIN inputs
                    /\ ~IsSome(table.columns[i].default)
             THEN [err |-> "Internal", row |-> << >>]
             ELSE [err |-> "Ok",
                   row |-> [i \in 1 .. Len(table.columns) |->
                               IF table.columns[i].name \in DOMAIN inputs
                               THEN inputs[table.columns[i].name]
                               ELSE Unwrap(table.columns[i].default)]]

\* The loop of Insert::execute from the i-th row of values: pad_row or
\* make_row, then create_row; the first error ends it. InsertBuilt carries on
\* after the row is built, InsertNext after create_row. [eng, err].
RECURSIVE InsertLoop(_, _, _, _, _, _)
InsertNext(st, table, columns, values, i, r) ==
    IF r.err # "Ok" THEN r
    ELSE InsertLoop(r.eng, st, table, columns, values, i + 1)

InsertBuilt(eng, st, table, columns, values, i, b) ==
    IF b.err # "Ok" THEN [eng |-> eng, err |-> b.err]
    ELSE InsertNext(st, table, columns, values, i, KvCreateRow(eng, st, table, b.row))

InsertLoop(eng, st, table, columns, values, i) ==
    IF i > Len(values) THEN [eng |-> eng, err |-> "Ok"]
    ELSE InsertBuilt(eng, st, table, columns, values, i,
             IF columns = << >> THEN PadRow(table, values[i])
             ELSE MakeRow(table, columns, values[i]))

\* Insert::execute after must_get_table: the loop over the rows of values.
InsertRow(eng, st, node, g) ==
    IF g.err # "Ok" THEN [eng |-> eng, err |-> g.err]
    ELSE InsertLoop(eng, st, Unwrap(g.val), node.columns, node.values, 1)

\* Insert::execute: [eng, err].
InsertExecute(eng, st, node) ==
    Only({InsertRow(eng, st, node, g) : g \in {KvMustGetTable(eng, st, node.table_name)}})

\* Scan::execute after must_get_table: scan_table.
ScanRows(eng, st, node, g) ==
    IF g.err # "Ok" THEN [eng |-> eng, err |-> g.err]
    ELSE [eng |-> eng, err |-> KvScanTable(eng, st, Unwrap(g.val), node.filter).err]

\* Scan::execute: [eng, err].
ScanExecute(eng, st, node) ==
    Only({ScanRows(eng, st, node, g) : g \in {KvMustGetTable(eng, st, node.table_name)}})

\* Plan::execute: [eng, err].
PlanExecute(eng, st, node) ==
    IF node.kind = "CreateTable" THEN KvCreateTable(eng, st, node.table)
    ELSE IF node.kind = "Insert" THEN InsertExecute(eng, st, node)
    ELSE ScanExecute(eng, st, node)

\* The `?` after Plan::build and the execute of the plan: [eng, err].
ExecutePlan(eng, st, p) ==
    IF p.err # "Ok" THEN [eng |-> eng, err |-> p.err]
    ELSE PlanExecute(eng, st, p.node)

\* Plan::build(stmt, txn)?.execute(txn) with the transaction st: [eng, err].
BuildAndExecute(eng, st, stmt) ==
    Only({ExecutePlan(eng, st, p) : p \in {PlanBuild(eng, st, stmt)}})

\* The session keeps the transaction, whatever the result r of the statement.
KeepTxn(txn, r) == [eng |-> r.eng, txn |-> txn, err |-> r.err]

\* The transaction is committed after a statement that succeeded.
CommitAfter(txn, r) ==
    [eng |-> IF r.err = "Ok" THEN MvccCommit(r.eng, Unwrap(txn)) ELSE r.eng,
     txn |-> txn, err |-> r.err]

\* The transaction is given up (rolled back) after a statement that failed.
AbortAfter(txn, r) ==
    IF r.err = "Ok" THEN [eng |-> r.eng, txn |-> txn, err |-> "Ok"]
    ELSE [eng |-> MvccRollback(r.eng, Unwrap(txn)), txn |-> None, err |-> r.err]

\* The arm for a statement inside a transaction, committing after each statement.
ExecuteInTxnAutocommit(eng, txn, stmt) ==
    Only({CommitAfter(txn, r) : r \in {BuildAndExecute(eng, Unwrap(txn), stmt)}})

\* The arm for a statement inside a transaction, giving the transaction up
\* when the statement fails.
ExecuteInTxnAbortOnError(eng, txn, stmt) ==
    Only({AbortAfter(txn, r) : r \in {BuildAndExecute(eng, Unwrap(txn), stmt)}})

\* The arm `stmt if self.txn.is_some()` of Session::execute: the statement runs
\* on the borrowed transaction, which the session keeps: [eng, txn, err].
ExecuteInTxn(eng, txn, stmt) ==
    Only({KeepTxn(txn, r) : r \in {BuildAndExecute(eng, Unwrap(txn), stmt)}})

\* The two arms of the match on the result r of the implicit transaction's
\* statement: commit on Ok, rollback on Err.
FinishImplicit(st, r) ==
    IF r.err = "Ok" THEN [eng |-> MvccCommit(r.eng, st), txn |-> None, err |-> "Ok"]
    ELSE [eng |-> MvccRollback(r.eng, st), txn |-> None, err |-> r.err]

\* The implicit transaction once Plan::build has returned p. A plan that failed
\* to build leaves through `?`: the transaction value is dropped with neither
\* commit nor rollback.
ExecuteImplicitPlan(eng, st, p) ==
    IF p.err # "Ok" THEN [eng |-> eng, txn |-> None, err |-> p.err]
    ELSE Only({FinishImplicit(st, r) : r \in {PlanExecute(eng, st, p.node)}})

\* The implicit transaction once begin has returned b.
ExecuteImplicitIn(b, stmt) ==
    Only({ExecuteImplicitPlan(b.eng, b.state, p) : p \in {PlanBuild(b.eng, b.state, stmt)}})

\* The last arm of Session::execute: begin, plan, execute, then commit or rollback.
ExecuteImplicit(eng, stmt) == Only({ExecuteImplicitIn(b, stmt) : b \in {MvccBegin(eng)}})

\* The arm of BEGIN once begin has returned b.
HoldTxn(b) == [eng |-> b.eng, txn |-> Some(b.state), err |-> "Ok"]

\* The guards without the one on BEGIN.
TxnStatementGuardNoBegin(txn, stmt) ==
    IF stmt.kind \in {"Commit", "Rollback"} /\ ~IsSome(txn) THEN "Internal" ELSE "Ok"

\* The two guarded arms at the head of Session::execute: BEGIN inside a
\* transaction, COMMIT or ROLLBACK outside one.
TxnStatementGuard(txn, stmt) ==
    IF stmt.kind = "Begin" /\ IsSome(txn) THEN "Internal"
    ELSE IF stmt.kind \in {"Commit", "Rollback"} /\ ~IsSome(txn) THEN "Internal"
    ELSE "Ok"

\* Session::execute: [eng, txn, err]; txn is the session's Option<Transaction>.
SessionExecute(eng, txn, stmt) ==
    IF stmt.kind = "ParseError" THEN [eng |-> eng, txn |-> txn, err |-> "Parse"]
    ELSE IF TxnStatementGuard(txn, stmt) # "Ok"
    THEN [eng |-> eng, txn |-> txn, err |-> "Internal"]
    ELSE IF stmt.kind = "Begin" THEN Only({HoldTxn(b) : b \in {MvccBegin(eng)}})
    ELSE IF stmt.kind = "Commit"
    THEN [eng |-> MvccCommit(eng, Unwrap(txn)), txn |-> None, err |-> "Ok"]
    ELSE IF stmt.kind = "Rollback"
    THEN [eng |-> MvccRollback(eng, Unwrap(txn)), txn |-> None, err |-> "Ok"]
    ELSE IF IsSome(txn) THEN ExecuteInTxn(eng, txn, stmt)
    ELSE ExecuteImplicit(eng, stmt)

\* How many transactions, explicit and implicit, the sessions begin in one run.
MaxSessionTxn == 4

\* The row ('x', 'x') and the filter a = 'x'.
RowX == <<String(<<120>>), String(<<120>>)>>
FilterA == Some(OperationExpr("Equal", FieldExpr(<<97>>), ConstsExpr(String(<<120>>))))

\* The statements the clients send.
Statements ==
    {BeginStmt, CommitStmt, RollbackStmt, ParseError, CreateTableStmt(Table),
     InsertStmt(Table.name, RowX), SelectStmt(Table.name, FilterA)}

TxnStatements == {BeginStmt, CommitStmt, RollbackStmt}

\* Whether executing stmt on a session holding txn begins a transaction.
Begins(txn, stmt) == ~IsSome(txn) /\ stmt.kind \notin {"Commit", "Rollback", "ParseError"}

\* The session record after execute. failed is history: a statement failed in
\* the explicit transaction the session holds or held last.
AfterExecute(sess, stmt, r) ==
    [sess EXCEPT !.txn = r.txn,
                 !.failed = IF stmt.kind = "Begin" /\ r.err = "Ok" THEN FALSE
                            ELSE IF IsSome(sess.txn) /\ stmt \notin TxnStatements
                                    /\ r.err # "Ok" THEN TRUE
                            ELSE sess.failed]

\* The state after execute(stmt) on session s has returned r.
Executed(s, stmt, r) ==
    /\ engine' = r.eng
    /\ sessions' = [sessions EXCEPT ![s] = AfterExecute(sessions[s], stmt, r)]
    /\ last' = [NoCall EXCEPT !.op = stmt.kind, !.t = s, !.err = r.err]

\* A call of Session::execute on session s.
Execute(s, stmt) ==
    /\ Begins(sessions[s].txn, stmt) => NextVersionOf(engine) < MaxSessionTxn
    /\ \E r \in {SessionExecute(engine, sessions[s].txn, stmt)} : Executed(s, stmt, r)
    /\ UNCHANGED <<txns, written, codec, disk, query, calls>>

NextSession == \E s \in Sessions, stmt \in Statements : Execute(s, stmt)

SpecSession == Init /\ [][NextSession]_vars

\* The step is recorded as a call of execute(stmt) on session s.
Called(s, stmt) == last'.t = s /\ last'.op = stmt.kind

\* C11: when a statement other than BEGIN, COMMIT, ROLLBACK is executed on a
\* session with no open transaction, no TxnActive marker of the implicit
\* transaction remains when execute returns, whether the statement succeeded
\* or its planning or execution failed.
C11_ImplicitTxnFinished ==
    [][\A s \in Sessions, stmt \in Statements \ TxnStatements :
          (~IsSome(sessions[s].txn) /\ Called(s, stmt) /\ Execute(s, stmt))
              => EncTxnActive(NextVersionOf(engine)) \notin DOMAIN engine']_vars

\* C13: BEGIN on a session that already holds a transaction returns an error,
\* keeps that transaction and allocates no version; COMMIT or ROLLBACK on a
\* session with no transaction returns an error and starts no transaction.
C13_TxnStatementErrors ==
    [][\A s \in Sessions :
          /\ (IsSome(sessions[s].txn) /\ Called(s, BeginStmt) /\ Execute(s, BeginStmt))
                => /\ last'.err # "Ok"
                   /\ sessions'[s].txn = sessions[s].txn
                   /\ engine' = engine
          /\ \A stmt \in {CommitStmt, RollbackStmt} :
                (~IsSome(sessions[s].txn) /\ Called(s, stmt) /\ Execute(s, stmt))
                    => /\ last'.err # "Ok"
                       /\ ~IsSome(sessions'[s].txn)
                       /\ engine' = engine]_vars

\* A BEGIN was refused on a session that holds a transaction.
C13_Witness ==
    /\ last.op = "Begin" /\ last.err = "Internal"
    /\ IsSome(sessions[last.t].txn)
    /\ NextVersionOf(engine) = Unwrap(sessions[last.t].txn).version + 1

\* The snapshots of the transactions of the sessions other than s: the ones
\* they hold, and the one a begin would give them now.
OtherReaders(s) ==
    {Unwrap(sessions[o].txn) : o \in {x \in Sessions \ {s} : IsSome(sessions[x].txn)}}
        \cup {MvccBegin(engine).state}

\* The raw keys that have a Version cell in the store.
RawKeys(eng) == {DecodeKey(k).key : k \in {x \in DOMAIN eng : DecodeKey(x).tag = TagVersion}}

\* The raw keys the transaction of version v has written.
WrittenBy(eng, v) == {k \in RawKeys(eng) : EncVersion(k, v) \in DOMAIN eng}

\* Every read of a transaction of another session returns what it would return
\* had the transaction s holds never written.
Isolated(s) ==
    LET without == MvccRollback(engine, Unwrap(sessions[s].txn))
    IN  \A rd \in OtherReaders(s) :
            /\ \A k \in RawKeys(engine) : MvccGet(engine, rd, k) = MvccGet(without, rd, k)
            /\ MvccScanPrefix(engine, rd, << >>) = MvccScanPrefix(without, rd, << >>)

\* C14: the writes of the statements inside an explicit transaction are not
\* visible to any transaction of another session while the session holds the
\* transaction, no statement inside it commits it, and ROLLBACK removes them.
C14_ExplicitTxnIsolation ==
    /\ [](\A s \in Sessions : IsSome(sessions[s].txn) => Isolated(s))
    /\ [][\A s \in Sessions, stmt \in Statements \ TxnStatements :
             (IsSome(sessions[s].txn) /\ Called(s, stmt) /\ Execute(s, stmt))
                 => /\ sessions'[s].txn = sessions[s].txn
                    /\ EncTxnActive(Unwrap(sessions[s].txn).version) \in DOMAIN engine']_vars
    /\ [][\A s \in Sessions :
             (IsSome(sessions[s].txn) /\ Called(s, RollbackStmt) /\ Execute(s, RollbackStmt))
                 => WrittenBy(engine', Unwrap(sessions[s].txn).version) = {}]_vars

\* A session holds a transaction that has written a key, and another session
\* holds a transaction that reads nothing at that key.
C14_Witness ==
    \E s \in Sessions, o \in Sessions :
        /\ s # o /\ IsSome(sessions[s].txn) /\ IsSome(sessions[o].txn)
        /\ \E k \in WrittenBy(engine, Unwrap(sessions[s].txn).version) :
               MvccGet(engine, Unwrap(sessions[o].txn), k).val = None

\* C15: a statement that fails inside an explicit transaction leaves the session
\* holding the same transaction, still active, and a later COMMIT or ROLLBACK of
\* the session succeeds and ends it.
C15_FailedStatementKeepsTxn ==
    [][\A s \in Sessions :
          /\ \A stmt \in Statements \ TxnStatements :
                (IsSome(sessions[s].txn) /\ Called(s, stmt) /\ last'.err # "Ok" /\ Execute(s, stmt))
                    => /\ sessions'[s].txn = sessions[s].txn
                       /\ EncTxnActive(Unwrap(sessions[s].txn).version) \in DOMAIN engine'
          /\ \A stmt \in {CommitStmt, RollbackStmt} :
                (IsSome(sessions[s].txn) /\ sessions[s].failed /\ Called(s, stmt) /\ Execute(s, stmt))
                    => /\ last'.err = "Ok"
                       /\ ~IsSome(sessions'[s].txn)
                       /\ EncTxnActive(Unwrap(sessions[s].txn).version)
                              \notin DOMAIN engine']_vars

\* A COMMIT or ROLLBACK succeeded on a session after a statement had failed in
\* its transaction.
C15_Witness ==
    /\ last.op \in {"Commit", "Rollback"} /\ last.err = "Ok"
    /\ sessions[last.t].failed

\* ------------------------------------------------------------- server and client

\* RESPONSE_END of the client.
ResponseEnd == "!!!end!!!"

\* rs.to_string() or e.to_string() as the lines LinesCodec puts on the wire: an
\* error and every result but a scan is one line; a scan is the column line, the
\* separator line, the row lines and the count line.
ResponseLines(stmt, err) ==
    IF err # "Ok" THEN <<"error">>
    ELSE IF stmt.kind = "Select" THEN <<"columns", "separator", "rows", "count">>
    ELSE <<stmt.kind>>

\* The state after the server has executed the line stmt of session s with
\* result r and has sent the response.
Responded(s, stmt, r) ==
    /\ engine' = r.eng
    /\ sessions' = [sessions EXCEPT ![s] =
           [AfterExecute(sessions[s], stmt, r) EXCEPT
               !.client = "waiting",
               !.resp = sessions[s].resp \o ResponseLines(stmt, r.err)]]
    /\ last' = [NoCall EXCEPT !.op = stmt.kind, !.t = s, !.err = r.err]

\* One request: Client::execute_sql sends the line and starts to wait;
\* ServerSession::handle_request receives it, executes it and sends the response.
Request(s, stmt) ==
    /\ sessions[s].conn = "open" /\ sessions[s].client = "prompt"
    /\ Begins(sessions[s].txn, stmt) => NextVersionOf(engine) < MaxSessionTxn
    /\ \E r \in {SessionExecute(engine, sessions[s].txn, stmt)} : Responded(s, stmt, r)
    /\ UNCHANGED <<txns, written, codec, disk, query, calls>>

\* Client::execute_sql, the receive loop: take one line; the sentinel ends the
\* loop and the client is back at its prompt, any other line is printed.
ClientRecv(s) ==
    /\ sessions[s].conn = "open" /\ sessions[s].client = "waiting"
    /\ sessions[s].resp # << >>
    /\ sessions' = [sessions EXCEPT
                       ![s].resp = Tail(sessions[s].resp),
                       ![s].client = IF Head(sessions[s].resp) = ResponseEnd
                                     THEN "prompt" ELSE "waiting"]
    /\ UNCHANGED <<engine, txns, written, last, codec, disk, query, calls>>

\* The client goes away (exit, quit, or the process is killed): the connection
\* is closed from its side.
Disconnect(s) ==
    /\ sessions[s].conn = "open"
    /\ sessions' = [sessions EXCEPT ![s].conn = "closed", ![s].client = "gone",
                                    ![s].resp = << >>]
    /\ UNCHANGED <<engine, txns, written, last, codec, disk, query, calls>>

\* handle_request returns at the end of the stream and the ServerSession is
\* dropped, and with it the Session and the transaction it holds. Neither
\* Session nor MvccTransaction implements Drop: the store is not touched.
ServerClose(s) ==
    /\ sessions[s].conn = "closed"
    /\ sessions' = [sessions EXCEPT ![s].conn = "dropped", ![s].txn = None,
                                    ![s].dropped = sessions[s].txn]
    /\ UNCHANGED <<engine, txns, written, last, codec, disk, query, calls>>

NextServer ==
    \/ \E s \in Sessions, stmt \in Statements : Request(s, stmt)
    \/ \E s \in Sessions : ClientRecv(s)
    \/ \E s \in Sessions : Disconnect(s)
    \/ \E s \in Sessions : ServerClose(s)

\* The server task of a connection and the client's receive loop keep running:
\* the end of a stream is noticed, a line that has arrived is read. When a user
\* types a statement or quits is up to the user.
SpecServer ==
    /\ Init /\ [][NextServer]_vars
    /\ \A s \in Sessions : WF_vars(ServerClose(s)) /\ WF_vars(ClientRecv(s))

\* C12: when a session is dropped while it holds an open explicit transaction,
\* that transaction is eventually rolled back: its TxnActive marker and every
\* Version entry it wrote are removed from the store.
C12_DroppedTxnRolledBack ==
    \A s \in Sessions :
        IsSome(sessions[s].dropped)
            ~> /\ IsSome(sessions[s].dropped)
               /\ EncTxnActive(Unwrap(sessions[s].dropped).version) \notin DOMAIN engine
               /\ WrittenBy(engine, Unwrap(sessions[s].dropped).version) = {}

\* C16: a client that has sent a request and waits for the sentinel line gets
\* back to its prompt (unless its user ends it first).
C16_ClientGetsPrompt ==
    \A s \in Sessions :
        (sessions[s].client = "waiting") ~> (sessions[s].client \in {"prompt", "gone"})

\* ------------------------------------------------------------- versions

\* The versions the begins so far have returned.
Begun == {h \in Handles : txns[h].status # "none"}

\* C17: every begin returns a version strictly greater than the version
\* returned by every earlier begin on the same store, so no two transactions
\* share a version, whatever MVCC operations interleave with the begins.
C17_VersionsIncrease ==
    [][Begin => \A h \in Begun : h < last'.t /\ txns[h].version < txns'[last'.t].version]_vars

\* A third begin, after an earlier transaction has written and ended and while
\* another one is still active.
C17_Witness ==
    /\ last.op = "begin" /\ last.t = 2
    /\ \E h \in Handles : h < last.t /\ Active(h)
    /\ \E h \in Handles : h < last.t /\ txns[h].status \in {"committed", "rolledback"}
    /\ \E h \in Handles, k \in Keys : written[h][k] # NoWrite

\* ------------------------------------------------------------- scan and get

\* The keys of a scan result.
ListKeys(list) == {list[i].key : i \in 1 .. Len(list)}

\* C18: T.scan_prefix(P) returns exactly the pairs (K, x) such that raw key K
\* starts with P and T.get(K) returns x, each key once, in ascending key order;
\* a key whose newest visible version is a tombstone is absent.
C18_ScanAgreesWithGet ==
    (last.op = "scan" /\ last.err = "Ok") =>
        /\ \A i \in 1 .. Len(last.list) :
               /\ StartsWith(last.list[i].key, last.key)
               /\ MvccGet(engine, txns[last.t], last.list[i].key)
                      = [err |-> "Ok", val |-> Some(last.list[i].value)]
        /\ \A k \in Keys :
               (StartsWith(k, last.key) /\ IsSome(MvccGet(engine, txns[last.t], k).val))
                   => k \in ListKeys(last.list)
        /\ \A i \in 1 .. Len(last.list), j \in 1 .. Len(last.list) :
               i < j => BytesLess(last.list[i].key, last.list[j].key)

\* A scan that returns one key and leaves out another one that starts with the
\* prefix, whose newest version visible to the reader is a tombstone over an
\* older visible value.
C18_Witness ==
    /\ last.op = "scan" /\ last.err = "Ok" /\ Len(last.list) = 1
    /\ \E k \in Keys \ ListKeys(last.list) :
           /\ StartsWith(k, last.key)
           /\ \E h \in Handles, g \in Handles :
                  /\ g < h /\ IsVisible(txns[last.t], h) /\ IsVisible(txns[last.t], g)
                  /\ EncVersion(k, h) \in DOMAIN engine /\ EncVersion(k, g) \in DOMAIN engine
                  /\ engine[EncVersion(k, h)] = BincodeOption(None)
                  /\ engine[EncVersion(k, g)] # BincodeOption(None)

\* ------------------------------------------------------------- table scans

\* The rows the clients store under each table: ('x', 'x') and ('x', NULL) under
\* t, ('y', 'x') under t1.
TableRows(table) ==
    IF table = Table THEN {<<String(<<120>>), String(<<120>>)>>, <<String(<<120>>), Null>>}
    ELSE {<<String(<<121>>), String(<<120>>)>>}

\* KVTransaction::create_row on one of the two tables.
CreateRowIn(h, table, row) ==
    /\ Active(h)
    /\ \E r \in {KvCreateRow(engine, txns[h], table, row)} :
          /\ engine' = r.eng
          /\ last' = [NoCall EXCEPT !.op = "create_row", !.t = h, !.key = table.name,
                                    !.err = r.err]
    /\ UNCHANGED <<txns, written, sessions, codec, disk, query, calls>>

\* KVTransaction::scan_table without a filter.
ScanTable(h, table) ==
    /\ Active(h)
    /\ \E r \in {KvScanTable(engine, txns[h], table, None)} :
          last' = [NoCall EXCEPT !.op = "scan_table", !.t = h, !.key = table.name,
                                 !.err = r.err, !.list = r.rows]
    /\ UNCHANGED <<engine, txns, written, sessions, codec, disk, query, calls>>

NextScan ==
    \/ KvBegin
    \/ \E h \in Handles, table \in Tables :
          \E row \in TableRows(table) : CreateRowIn(h, table, row)
    \/ \E h \in Handles, table \in Tables : ScanTable(h, table)
    \/ \E h \in Handles : Commit(h)
    \/ \E h \in Handles : Rollback(h)

SpecScan == Init /\ [][NextScan]_vars

\* The table of a name.
TableNamed(name) == CHOOSE t \in Tables : t.name = name

\* C19: scan_table(T) returns only rows that were stored under table T, also
\* when another table's name has T's name as a proper prefix (t and t1).
C19_ScanOnlyOwnRows ==
    (last.op = "scan_table" /\ last.err = "Ok") =>
        \A i \in 1 .. Len(last.list) : last.list[i] \in TableRows(TableNamed(last.key))

\* ------------------------------------------------------------- MvccKey codec

\* The bytes and the lengths of the byte strings inside the keys, and the
\* versions: 0x00, an ordinary byte and 0xff; versions on both sides of a byte
\* boundary.
CodecBytes == {0, 1, 255}
MaxBytesLen == 2
CodecVersions == {0, 1, 255, 256}

ByteStrings == UNION {[1 .. n -> CodecBytes] : n \in 0 .. MaxBytesLen}

\* enum MvccKey, as the record MvccKey::decode gives: the variant index, and 0
\* or the empty byte string for a field the variant does not have.
MvccKeys ==
    {[tag |-> TagNextVersion, version |-> 0, key |-> << >>]}
    \cup {[tag |-> TagTxnActive, version |-> v, key |-> << >>] : v \in CodecVersions}
    \cup {[tag |-> t, version |-> v, key |-> k] :
            t \in {TagTxnWrite, TagVersion}, v \in CodecVersions, k \in ByteStrings}

\* MvccKey::encode
MvccKeyEncode(k) ==
    CASE k.tag = TagNextVersion -> EncNextVersion
      [] k.tag = TagTxnActive -> EncTxnActive(k.version)
      [] k.tag = TagTxnWrite -> EncTxnWrite(k.version, k.key)
      [] k.tag = TagVersion -> EncVersion(k.key, k.version)

\* Two MvccKeys are handed to the codec.
InitCodec ==
    /\ engine = << >>
    /\ txns = [h \in Handles |-> Dropped("none", {})]
    /\ written = [h \in Handles |-> [k \in Keys |-> NoWrite]]
    /\ last = NoCall
    /\ sessions = [s \in Sessions |-> NewSession]
    /\ disk = NewDisk
    /\ query = NoQuery
    /\ calls = NoCalls
    /\ \E a \in MvccKeys, b \in MvccKeys : codec = [step |-> "keys", a |-> a, b |-> b]

\* MvccKey::encode of both keys.
Encode ==
    /\ codec.step = "keys"
    /\ codec' = [step |-> "encoded", a |-> codec.a, b |-> codec.b,
                 ea |-> MvccKeyEncode(codec.a), eb |-> MvccKeyEncode(codec.b)]
    /\ UNCHANGED <<engine, txns, written, last, sessions, disk, query, calls>>

\* MvccKey::decode of the first key's encoding.
Decode ==
    /\ codec.step = "encoded"
    /\ codec' = [step |-> "decoded", a |-> codec.a, b |-> codec.b,
                 ea |-> codec.ea, eb |-> codec.eb, da |-> DecodeKey(codec.ea)]
    /\ UNCHANGED <<engine, txns, written, last, sessions, disk, query, calls>>

NextCodec == Encode \/ Decode

SpecCodec == InitCodec /\ [][NextCodec]_vars

\* The declared order of MvccKey: the variant first, then the fields from left
\* to right (TxnWrite: version, key; Version: key, version), byte strings
\* lexicographically.
KeyLess(a, b) ==
    \/ a.tag < b.tag
    \/ /\ a.tag = b.tag
       /\ CASE a.tag = TagTxnActive -> a.version < b.version
            [] a.tag = TagTxnWrite ->
                  \/ a.version < b.version
                  \/ a.version = b.version /\ BytesLess(a.key, b.key)
            [] a.tag = TagVersion ->
                  \/ BytesLess(a.key, b.key)
                  \/ a.key = b.key /\ a.version < b.version
            [] OTHER -> FALSE

\* C20: decode(encode(k)) = k for every MvccKey k, and a < b in the declared
\* order gives encode(a) < encode(b) in byte order, also for byte strings that
\* contain 0x00.
C20_CodecRoundTripAndOrder ==
    /\ codec.step \in {"encoded", "decoded"} =>
          (KeyLess(codec.a, codec.b) => BytesLess(codec.ea, codec.eb))
    /\ codec.step = "decoded" => codec.da = codec.a

\* Version([0], 256) and Version([0, 255], 0): the first byte string has a 0x00
\* and is a proper prefix of the second, and the versions are in the other order.
C20_Witness ==
    /\ codec.step = "decoded"
    /\ codec.a = [tag |-> TagVersion, version |-> 256, key |-> <<0>>]
    /\ codec.b = [tag |-> TagVersion, version |-> 0, key |-> <<0, 255>>]
    /\ codec.da = codec.a
    /\ BytesLess(codec.ea, codec.eb)
\* ------------------------------------------------------------- SQL keys

\* Table and column names ("a", "ab", "bc", "c") and values inside the keys.
KeyNames == {<<97>>, <<97, 98>>, <<98, 99>>, <<99>>}
KeyValues == {Null, Integer(1), String(<<120>>)}

\* enum Key: Table(name), Row(name, primary key), Index(name, column, value).
SqlKeys ==
    {[variant |-> "Table", table |-> n] : n \in KeyNames}
    \cup {[variant |-> "Row", table |-> n, value |-> v] : n \in KeyNames, v \in KeyValues}
    \cup {[variant |-> "Index", table |-> n, column |-> c, value |-> v] :
            n \in KeyNames, c \in KeyNames, v \in KeyValues}

\* Key::encode
KeyEncode(k) ==
    CASE k.variant = "Table" -> EncKeyTable(k.table)
      [] k.variant = "Row" -> EncKeyRow(k.table, k.value)
      [] k.variant = "Index" -> EncKeyIndex(k.table, k.column, k.value)

\* Two Keys are handed to the codec.
InitKeys ==
    /\ engine = << >>
    /\ txns = [h \in Handles |-> Dropped("none", {})]
    /\ written = [h \in Handles |-> [k \in Keys |-> NoWrite]]
    /\ last = NoCall
    /\ sessions = [s \in Sessions |-> NewSession]
    /\ disk = NewDisk
    /\ query = NoQuery
    /\ calls = NoCalls
    /\ \E a \in SqlKeys, b \in SqlKeys : codec = [step |-> "sqlkeys", a |-> a, b |-> b]

\* Key::encode of both keys.
EncodeKeys ==
    /\ codec.step = "sqlkeys"
    /\ codec' = [step |-> "sqlencoded", a |-> codec.a, b |-> codec.b,
                 ea |-> KeyEncode(codec.a), eb |-> KeyEncode(codec.b)]
    /\ UNCHANGED <<engine, txns, written, last, sessions, disk, query, calls>>

NextKeys == EncodeKeys

SpecKeys == InitKeys /\ [][NextKeys]_vars

\* C21: the str fields of a key are escaped and terminated, so two distinct
\* keys never encode to the same bytes (Index("ab","c",v) and Index("a","bc",v)
\* differ).
C21_DistinctKeysDistinctBytes ==
    codec.step = "sqlencoded" => (codec.a # codec.b => codec.ea # codec.eb)
\* ------------------------------------------------------------- disk engine

\* const LOG_HEADER_SIZE
LogHeaderSize == 8

\* The values the clients set: the empty value, one byte, two bytes.
DiskValues == {<< >>, <<7>>, <<8, 9>>}

\* The most records the log grows to.
MaxLogRecords == 4

\* u32::to_be_bytes of a size below 2^16.
SerializeU32(n) == <<0, 0, (n \div 256) % 256, n % 256>>

\* i32::to_be_bytes: two's complement, -1 is ff ff ff ff.
SerializeI32(n) ==
    IF n >= 0 THEN SerializeU32(n)
    ELSE LET m == (-n) - 1
         IN  <<255, 255, 255 - ((m \div 256) % 256), 255 - (m % 256)>>

\* The value_size field of write_entry: -1 for a tombstone. The mutant writes
\* the length 0 there, as value_size does for total_size.
ValueSizeFieldZero(value) == IF IsSome(value) THEN Len(Unwrap(value)) ELSE 0
ValueSizeField(value) == IF IsSome(value) THEN Len(Unwrap(value)) ELSE -1

\* Log::write_entry at the end of the file: [log, offset, size], the file
\* afterwards, the offset the record starts at and its total size.
WriteEntry(log, key, value) ==
    [log |-> log \o SerializeU32(Len(key)) \o SerializeI32(ValueSizeField(value))
                 \o key \o (IF IsSome(value) THEN Unwrap(value) ELSE << >>),
     offset |-> Len(log),
     size |-> LogHeaderSize + Len(key) + (IF IsSome(value) THEN Len(Unwrap(value)) ELSE 0)]

\* Log::read_value: val_size bytes from the absolute offset.
ReadValue(log, offset, val_size) == SubSeq(log, offset + 1, offset + val_size)

\* The directory entry set makes: the mutant keeps the record's offset, the
\* code the offset of the value bytes.
KeydirEntryAtRecord(w, value) == <<w.offset, Len(value)>>
KeydirEntry(w, value) == <<w.offset + w.size - Len(value), Len(value)>>

\* DiskEngine::set: [log, keydir].
DiskEngineSet(d, key, value) ==
    [log |-> WriteEntry(d.log, key, Some(value)).log,
     keydir |-> MapInsert(d.keydir, key, KeydirEntry(WriteEntry(d.log, key, Some(value)), value))]

\* DiskEngine::get
DiskEngineGet(d, key) ==
    IF key \in DOMAIN d.keydir
    THEN Some(ReadValue(d.log, d.keydir[key][1], d.keydir[key][2]))
    ELSE None

\* DiskEngine::delete. The mutant writes no tombstone for a key that is not in
\* the directory.
DiskEngineDeleteIfPresent(d, key) ==
    IF key \in DOMAIN d.keydir
    THEN [log |-> WriteEntry(d.log, key, None).log, keydir |-> MapRemove(d.keydir, key)]
    ELSE [log |-> d.log, keydir |-> d.keydir]
DiskEngineDelete(d, key) ==
    [log |-> WriteEntry(d.log, key, None).log, keydir |-> MapRemove(d.keydir, key)]

\* u32::from_be_bytes / i32::from_be_bytes of the four bytes after offset.
DeserializeU32(log, offset) == log[offset + 3] * 256 + log[offset + 4]
DeserializeI32(log, offset) ==
    IF log[offset + 1] >= 128
    THEN (log[offset + 3] - 255) * 256 + (log[offset + 4] - 255) - 1
    ELSE DeserializeU32(log, offset)

\* Startup recovery: the log is read record by record from offset; a record
\* with value_size >= 0 puts its key into the directory with the offset and
\* the length of its value bytes, a record with value_size -1 removes its key.
RECURSIVE BuildKeydir(_, _, _)
BuildKeydir(log, offset, keydir) ==
    IF offset >= Len(log) THEN keydir
    ELSE LET key_size == DeserializeU32(log, offset)
             value_size == DeserializeI32(log, offset + 4)
             key == SubSeq(log, offset + LogHeaderSize + 1, offset + LogHeaderSize + key_size)
             value_offset == offset + LogHeaderSize + key_size
         IN  IF value_size >= 0
             THEN BuildKeydir(log, value_offset + value_size,
                              MapInsert(keydir, key, <<value_offset, value_size>>))
             ELSE BuildKeydir(log, value_offset, MapRemove(keydir, key))

\* The records of the log from offset on, as write_entry lays them out:
\* [offset, key, value], value None for a tombstone.
RECURSIVE LogRecords(_, _)
LogRecords(log, offset) ==
    IF offset >= Len(log) THEN << >>
    ELSE LET key_size == DeserializeU32(log, offset)
             value_size == DeserializeI32(log, offset + 4)
             value_offset == offset + LogHeaderSize + key_size
             size == IF value_size >= 0 THEN value_size ELSE 0
         IN  <<[offset |-> offset,
                key |-> SubSeq(log, offset + LogHeaderSize + 1, value_offset),
                value |-> IF value_size >= 0
                          THEN Some(SubSeq(log, value_offset + 1, value_offset + size))
                          ELSE None]>>
             \o LogRecords(log, value_offset + size)

\* The number of set and delete calls so far.
DiskCalls == Len(LogRecords(disk.log, 0))

\* A client calls DiskEngine::set.
DiskSet(key, value) ==
    /\ DiskCalls < MaxLogRecords
    /\ \E d \in {DiskEngineSet(disk, key, value)} :
          disk' = [log |-> d.log, keydir |-> d.keydir,
                   current |-> [disk.current EXCEPT ![key] = Some(value)]]
    /\ last' = [NoCall EXCEPT !.op = "disk_set", !.key = key, !.value = Some(value)]
    /\ UNCHANGED <<engine, txns, written, sessions, codec, query, calls>>

\* A client calls DiskEngine::delete.
DiskDelete(key) ==
    /\ DiskCalls < MaxLogRecords
    /\ \E d \in {DiskEngineDelete(disk, key)} :
          disk' = [log |-> d.log, keydir |-> d.keydir,
                   current |-> [disk.current EXCEPT ![key] = None]]
    /\ last' = [NoCall EXCEPT !.op = "disk_delete", !.key = key]
    /\ UNCHANGED <<engine, txns, written, sessions, codec, query, calls>>

\* A client calls DiskEngine::get.
DiskGet(key) ==
    /\ last' = [NoCall EXCEPT !.op = "disk_get", !.key = key,
                             !.val = DiskEngineGet(disk, key)]
    /\ UNCHANGED <<engine, txns, written, sessions, codec, disk, query, calls>>

\* The process restarts: the directory is rebuilt from the log.
Reopen ==
    /\ disk' = [disk EXCEPT !.keydir = BuildKeydir(disk.log, 0, << >>)]
    /\ last' = [NoCall EXCEPT !.op = "reopen"]
    /\ UNCHANGED <<engine, txns, written, sessions, codec, query, calls>>

NextDisk ==
    \/ \E key \in Keys, value \in DiskValues : DiskSet(key, value)
    \/ \E key \in Keys : DiskDelete(key)
    \/ \E key \in Keys : DiskGet(key)
    \/ Reopen

SpecDisk == Init /\ [][NextDisk]_vars

\* ------------------------------------------------------------- disk claims

\* Two engines with the same keys and the same value under each key.
SameDirectory(d, e) ==
    /\ DOMAIN d.keydir = DOMAIN e.keydir
    /\ \A k \in DOMAIN d.keydir : DiskEngineGet(d, k) = DiskEngineGet(e, k)

\* C22: after any sequence of set and delete, replaying the log from offset 0
\* gives a directory with the same keys and the same values as before.
C22_ReplayGivesSameDirectory == [][Reopen => SameDirectory(disk, disk')]_vars

\* A restart after a set, an overwriting set, a set of the other key and its
\* delete: the log holds a tombstone and a dead record.
C22_Witness ==
    /\ last.op = "reopen"
    /\ DiskCalls = 4
    /\ disk.current[<<1>>] = Some(<<8, 9>>)
    /\ disk.current[<<1, 0>>] = None
    /\ DOMAIN disk.keydir = {<<1>>}
    /\ \E i \in 1 .. 4 : LogRecords(disk.log, 0)[i] =
            [offset |-> 0, key |-> <<1>>, value |-> Some(<<7>>)]

\* C23: every set and every delete appends exactly one record at the end of
\* the log and changes no byte written before, also a delete of a key that is
\* not in the directory and a set over an existing key.
C23_AppendOnly ==
    [][last'.op \in {"disk_set", "disk_delete"} =>
          /\ SubSeq(disk'.log, 1, Len(disk.log)) = disk.log
          /\ LogRecords(disk'.log, 0) =
                LogRecords(disk.log, 0)
                \o <<[offset |-> Len(disk.log), key |-> last'.key, value |-> last'.value]>>]_vars

\* A set over an existing key, then a delete of a key that was never set.
C23_Witness ==
    /\ last.op = "disk_delete"
    /\ DiskCalls = 3
    /\ LogRecords(disk.log, 0)[1].key = <<1>>
    /\ LogRecords(disk.log, 0)[2].key = <<1>>
    /\ LogRecords(disk.log, 0)[2].value # None
    /\ LogRecords(disk.log, 0)[3] = [offset |-> 20, key |-> <<1, 0>>, value |-> None]

\* The last record of key k in a sequence of records.
LastRecordOf(records, k) ==
    records[CHOOSE i \in 1 .. Len(records) :
                /\ records[i].key = k
                /\ \A j \in (i + 1) .. Len(records) : records[j].key # k]

\* C24: get(k) returns the value of the most recent set(k, v) when no
\* delete(k) followed it and none otherwise; the directory entry of k is the
\* absolute offset and the length of the value bytes of that record; a key set
\* to the empty value stays present.
C24_GetReturnsLatest ==
    /\ \A k \in Keys :
          /\ DiskEngineGet(disk, k) = disk.current[k]
          /\ (k \in DOMAIN disk.keydir) = IsSome(disk.current[k])
          /\ k \in DOMAIN disk.keydir =>
                LET r == LastRecordOf(LogRecords(disk.log, 0), k)
                IN  /\ r.value = disk.current[k]
                    /\ disk.keydir[k] =
                          <<r.offset + LogHeaderSize + Len(k), Len(Unwrap(r.value))>>
    /\ last.op = "disk_get" => last.val = disk.current[last.key]

\* get of a key set to the empty value over an older value, the other key set
\* and deleted.
C24_Witness ==
    /\ last.op = "disk_get"
    /\ last.key = <<1>>
    /\ last.val = Some(<< >>)
    /\ DiskCalls = 4
    /\ LogRecords(disk.log, 0)[1] = [offset |-> 0, key |-> <<1>>, value |-> Some(<<8, 9>>)]
    /\ disk.current[<<1, 0>>] = None
    /\ \E i \in 1 .. 4 : LogRecords(disk.log, 0)[i].key = <<1, 0>>
\* ------------------------------------------------------------- disjoint writers

CreateTable(h, table) ==
    /\ Active(h)
    /\ \E r \in {KvCreateTable(engine, txns[h], table)} :
          /\ engine' = r.eng
          /\ last' = [NoCall EXCEPT !.op = "create_table", !.t = h, !.key = table.name,
                                    !.err = r.err]
    /\ UNCHANGED <<txns, written, sessions, codec, disk, query, calls>>

NextSchema ==
    \/ KvBegin
    \/ \E h \in Handles, table \in SchemaTables : CreateTable(h, table)
    \/ \E h \in Handles : Commit(h)
    \/ \E h \in Handles : Rollback(h)

SpecSchema == Init /\ [][NextSchema]_vars

\* A table of this name is visible to h: written by h itself, or by a
\* transaction that committed before h began.
TableVisibleTo(h, name) ==
    \E g \in Handles :
        /\ EncVersion(EncKeyTable(name), txns[g].version) \in DOMAIN engine
        /\ txns[g].status # "none"
        /\ g = h \/ (g \in Before(h) /\ txns[g].status = "committed")

\* At least one column, exactly one primary-key column, which is not nullable,
\* and every default of the type of its column (or NULL).
WellFormed(table) ==
    /\ Len(table.columns) >= 1
    /\ Cardinality({i \in 1 .. Len(table.columns) : table.columns[i].primary_key}) = 1
    /\ \A i \in 1 .. Len(table.columns) :
          /\ table.columns[i].primary_key => ~table.columns[i].nullable
          /\ IsSome(table.columns[i].default) =>
                Unwrap(table.columns[i].default) \in
                    {Null} \cup {v \in {String(<<118>>), Integer(1)} :
                                    v[1] = table.columns[i].datatype}

\* C26: create_table(T) writes Table(T.name) only when no table of that name is
\* visible to the transaction and T is well formed; otherwise it returns an
\* Internal error and writes nothing.
C26_CreateTableGuarded ==
    [][\A h \in Handles, table \in SchemaTables :
          CreateTable(h, table) =>
              IF TableVisibleTo(h, table.name) \/ ~WellFormed(table)
              THEN last'.err = "Internal" /\ engine' = engine
              ELSE engine' # engine =>
                      /\ last'.err = "Ok"
                      /\ EncVersion(EncKeyTable(table.name), txns[h].version) \in DOMAIN engine'
                      /\ engine'[EncVersion(EncKeyTable(table.name), txns[h].version)]
                            = BincodeOption(Some(BincodeTable(table)))]_vars
\* ------------------------------------------------------------- INSERT

\* The INSERT statements on u, as [columns, values]: without a column list
\* one, two, three and four values, and two rows of which the second lacks b;
\* with a column list (a, b), (b, a), (a), (a, c), and (a, b) with one value.
InsertInputs ==
    LET x == String(<<120>>)
        y == String(<<121>>)
        z == String(<<122>>)
        a == <<97>>
        b == <<98>>
        c == <<99>>
    IN  {[columns |-> << >>, values |-> <<<<x>>>>],
         [columns |-> << >>, values |-> <<<<x, y>>>>],
         [columns |-> << >>, values |-> <<<<y, y, z>>>>],
         [columns |-> << >>, values |-> <<<<x, y, z, z>>>>],
         [columns |-> << >>, values |-> <<<<y, z>>, <<x>>>>],
         [columns |-> <<a, b>>, values |-> <<<<x, z>>>>],
         [columns |-> <<b, a>>, values |-> <<<<x, y>>>>],
         [columns |-> <<a>>, values |-> <<<<x>>>>],
         [columns |-> <<a, c>>, values |-> <<<<x, z>>>>],
         [columns |-> <<a, b>>, values |-> <<<<x>>>>]}

\* A session in transaction h executes INSERT INTO u [(columns)] VALUES values.
Insert(h, input) ==
    /\ Active(h)
    /\ \E r \in {InsertExecute(engine, txns[h],
                               InsertValuesStmt(TableU.name, input.columns, input.values))} :
          /\ engine' = r.eng
          /\ last' = [op |-> "insert", t |-> h, key |-> TableU.name, value |-> None,
                      err |-> r.err, val |-> None, list |-> << >>,
                      columns |-> input.columns, values |-> input.values]
    /\ UNCHANGED <<txns, written, sessions, codec, disk, query, calls>>

NextInsert ==
    \/ KvBegin
    \/ \E h \in Handles : CreateTable(h, TableU)
    \/ \E h \in Handles, input \in InsertInputs : Insert(h, input)
    \/ \E h \in Handles : Commit(h)
    \/ \E h \in Handles : Rollback(h)

SpecInsert == Init /\ [][NextInsert]_vars

\* The rows stored under table u: every version of a row key that is not a
\* tombstone.
StoredRows(eng) ==
    {UnBincodeRow(Unwrap(UnBincodeOption(eng[k]))) :
        k \in {j \in DOMAIN eng :
                 /\ DecodeKey(j).tag = TagVersion
                 /\ StartsWith(DecodeKey(j).key, EncKeyPrefixRow(TableU.name))
                 /\ IsSome(UnBincodeOption(eng[j]))}}

\* C27: every row stored by an INSERT has exactly as many values as its table
\* has columns; an INSERT without column list that supplies more values than
\* the table has columns does not store a longer row.
C27_StoredRowLength ==
    \A row \in StoredRows(engine) : Len(row) = Len(TableU.columns)

\* The position of the value given for column i of u by an INSERT: i itself
\* without column list, the last position that names the column with one; 0
\* when no value is given.
GivenAt(columns, value, i) ==
    IF columns = << >> THEN (IF i <= Len(value) THEN i ELSE 0)
    ELSE IF \E j \in 1 .. Len(columns) : columns[j] = TableU.columns[i].name
    THEN CHOOSE j \in 1 .. Len(columns) :
             /\ columns[j] = TableU.columns[i].name
             /\ \A m \in (j + 1) .. Len(columns) : columns[m] # TableU.columns[i].name
    ELSE 0

\* A column of u is left without value and without default.
Unfilled(columns, value) ==
    \E i \in 1 .. Len(TableU.columns) :
        GivenAt(columns, value, i) = 0 /\ ~IsSome(TableU.columns[i].default)

\* The row the INSERT is to store: the given value, else the default.
FilledRow(columns, value) ==
    [i \in 1 .. Len(TableU.columns) |->
        IF GivenAt(columns, value, i) # 0 THEN value[GivenAt(columns, value, i)]
        ELSE Unwrap(TableU.columns[i].default)]

\* The INSERT gives as many values as columns named, and no more than u has.
Matching(columns, value) ==
    /\ Len(value) <= Len(TableU.columns)
    /\ columns # << >> => Len(columns) = Len(value)

\* The step is an INSERT of this input by h.
Inserted(h, input) ==
    /\ last'.op = "insert"
    /\ last'.t = h
    /\ last'.columns = input.columns
    /\ last'.values = input.values

\* C28: INSERT fills every column not given a value with the column's default
\* (leading columns from the values without column list, by name with one); a
\* column left without value and without default makes it fail with an
\* Internal error.
C28_InsertFillsDefaults ==
    [][\A h \in Handles, input \in InsertInputs :
          (Inserted(h, input) /\ Insert(h, input)) =>
              /\ (\E i \in 1 .. Len(input.values) :
                     Matching(input.columns, input.values[i])
                     /\ Unfilled(input.columns, input.values[i]))
                   => last'.err # "Ok"
              /\ (Matching(input.columns, input.values[1])
                  /\ Unfilled(input.columns, input.values[1]))
                   => last'.err = "Internal" /\ engine' = engine
              /\ last'.err = "Ok" =>
                   \A i \in 1 .. Len(input.values) :
                       Matching(input.columns, input.values[i]) =>
                           LET row == FilledRow(input.columns, input.values[i])
                               key == EncVersion(EncKeyRow(TableU.name, row[1]),
                                                 txns[h].version)
                           IN  /\ key \in DOMAIN engine'
                               /\ engine'[key] = BincodeOption(Some(BincodeRow(row)))]_vars

\* Rows stored with a default: ('x', 'y', 'v') from VALUES ('x', 'y') and
\* ('y', 'x', 'v') from the column list (b, a) with VALUES ('x', 'y'); the last
\* INSERT, with the column list (a), failed for b, which has no default.
C28_Witness ==
    /\ last.op = "insert"
    /\ last.err = "Internal"
    /\ last.columns = <<<<97>>>>
    /\ <<String(<<120>>), String(<<121>>), String(<<118>>)>> \in StoredRows(engine)
    /\ <<String(<<121>>), String(<<120>>), String(<<118>>)>> \in StoredRows(engine)
\* ------------------------------------------------------------- filters

\* The most rows handed to an executor.
MaxQueryRows == 2

\* The sequences of at most n elements of S.
RECURSIVE SeqsUpTo(_, _)
SeqsUpTo(S, n) ==
    IF n = 0 THEN {<< >>}
    ELSE LET shorter == SeqsUpTo(S, n - 1)
         IN  shorter \cup {Append(q, x) : q \in {r \in shorter : Len(r) = n - 1}, x \in S}

\* The columns "a", "b" of the rows under a filter, and their cells.
QueryColumns == <<<<97>>, <<98>>>>
QueryCells == {Null, Boolean(TRUE), Integer(1), String(<<120>>)}
QueryRows == {<<x, y>> : x \in QueryCells, y \in QueryCells}

\* The predicates: a bare column (one of them unknown), a bare constant, a
\* comparison of columns and constants, a comparison of a comparison, and an
\* aggregate call, which evaluate_expr does not support.
Operands ==
    {FieldExpr(<<97>>), FieldExpr(<<98>>), ConstsExpr(Null), ConstsExpr(Boolean(FALSE)),
     ConstsExpr(Integer(2)), ConstsExpr(String(<<119>>))}
Operations == {"Equal", "GreaterThan", "LessThan"}
Predicates ==
    Operands
    \cup {FieldExpr(<<122>>), ConstsExpr(Boolean(TRUE)), FunctionExpr(<<99>>, <<97>>)}
    \cup {OperationExpr(op, l, r) : op \in Operations, l \in Operands, r \in Operands}
    \cup {OperationExpr("Equal",
                        OperationExpr("LessThan", FieldExpr(<<97>>), ConstsExpr(Integer(2))),
                        ConstsExpr(Boolean(TRUE)))}

\* The match of Filter::execute that keeps a row whose predicate is Null.
FilterMatchKeepingNull(v) ==
    IF v = Boolean(FALSE) THEN "skip"
    ELSE IF v = Boolean(TRUE) \/ v = Null THEN "keep"
    ELSE "error"

\* The match of Filter::execute on the value of the predicate on a row.
FilterMatch(v) ==
    IF v = Null \/ v = Boolean(FALSE) THEN "skip"
    ELSE IF v = Boolean(TRUE) THEN "keep"
    ELSE "error"

\* One turn of the loop of Filter::execute, given the match on the i-th row.
RECURSIVE FilterLoop(_, _, _, _, _)
FilterStep(predicate, columns, rows, i, new_rows, m) ==
    IF m = "error" THEN [err |-> "Internal", rows |-> << >>]
    ELSE FilterLoop(predicate, columns, rows, i + 1,
                    IF m = "keep" THEN Append(new_rows, rows[i]) ELSE new_rows)

\* The loop of Filter::execute over the rows of its source: [err, rows].
FilterLoop(predicate, columns, rows, i, new_rows) ==
    IF i > Len(rows) THEN [err |-> "Ok", rows |-> new_rows]
    ELSE FilterStep(predicate, columns, rows, i, new_rows,
                    FilterMatch(EvaluateExpr(predicate, columns, rows[i], columns, rows[i])))

\* Filter::execute on the ResultSet::Scan of its source.
FilterExecute(predicate, columns, rows) == FilterLoop(predicate, columns, rows, 1, << >>)

\* A table of the given columns, and the pairs scan_prefix yields for rows
\* stored in it.
QueryTable(columns) ==
    [name |-> <<116>>, columns |-> [i \in 1 .. Len(columns) |-> [name |-> columns[i]]]]
StoredPairs(rows) ==
    [err |-> "Ok",
     list |-> [i \in 1 .. Len(rows) |-> [key |-> <<i>>, value |-> BincodeRow(rows[i])]]]

\* Rows and a predicate are handed to a filter.
InitFilter ==
    /\ engine = << >>
    /\ txns = [h \in Handles |-> Dropped("none", {})]
    /\ written = [h \in Handles |-> [k \in Keys |-> NoWrite]]
    /\ last = NoCall
    /\ sessions = [s \in Sessions |-> NewSession]
    /\ codec = NoCodec
    /\ disk = NewDisk
    /\ calls = NoCalls
    /\ \E rows \in SeqsUpTo(QueryRows, MaxQueryRows), predicate \in Predicates :
          query = [step |-> "rows", columns |-> QueryColumns, rows |-> rows,
                   predicate |-> predicate]

\* The Filter executor (a WHERE above a scan, a HAVING) runs on the rows.
Filter ==
    /\ query.step = "rows"
    /\ query' = [step |-> "filtered", site |-> "Filter", columns |-> query.columns,
                 rows |-> query.rows, predicate |-> query.predicate,
                 result |-> FilterExecute(query.predicate, query.columns, query.rows)]
    /\ UNCHANGED <<engine, txns, written, last, sessions, codec, disk, calls>>

\* scan_table runs with the predicate as its filter on the stored rows.
ScanFilter ==
    /\ query.step = "rows"
    /\ query' = [step |-> "filtered", site |-> "scan_table", columns |-> query.columns,
                 rows |-> query.rows, predicate |-> query.predicate,
                 result |-> ScanTableRows(QueryTable(query.columns), Some(query.predicate),
                                          StoredPairs(query.rows))]
    /\ UNCHANGED <<engine, txns, written, last, sessions, codec, disk, calls>>

NextFilter == Filter \/ ScanFilter

SpecFilter == InitFilter /\ [][NextFilter]_vars

\* The value of the predicate of the query on its i-th row.
PredicateOn(i) ==
    EvaluateExpr(query.predicate, query.columns, query.rows[i], query.columns, query.rows[i])

\* The predicate is a comparison whose operands evaluate without error on the
\* i-th row, one of them to Null.
NullOperandOn(i) ==
    /\ query.predicate.kind = "Operation"
    /\ LET l == EvaluateExpr(query.predicate.l, query.columns, query.rows[i],
                             query.columns, query.rows[i])
           r == EvaluateExpr(query.predicate.r, query.columns, query.rows[i],
                             query.columns, query.rows[i])
       IN  l # <<"Err">> /\ r # <<"Err">> /\ (l = Null \/ r = Null)

\* The rows among the first n whose predicate is Boolean(true), in order.
RECURSIVE TrueRows(_)
TrueRows(n) ==
    IF n = 0 THEN << >>
    ELSE IF PredicateOn(n) = Boolean(TRUE) THEN Append(TrueRows(n - 1), query.rows[n])
    ELSE TrueRows(n - 1)

\* C29: a filter (scan_table's, the Filter executor) keeps exactly the rows on
\* which the predicate is Boolean(true); a comparison with a Null operand is
\* Null and its row is dropped, Boolean(false) drops the row, and a predicate
\* of any other type on some row is an Internal error.
C29_FilterKeepsOnlyTrue ==
    query.step = "filtered" =>
        /\ \A i \in 1 .. Len(query.rows) : NullOperandOn(i) => PredicateOn(i) = Null
        /\ IF \E i \in 1 .. Len(query.rows) :
                  PredicateOn(i) \notin {Null, Boolean(FALSE), Boolean(TRUE)}
           THEN query.result.err = "Internal"
           ELSE query.result = [err |-> "Ok", rows |-> TrueRows(Len(query.rows))]

\* A filter returned one row of two: the other one's comparison had a Null
\* operand.
C29_Witness ==
    /\ query.step = "filtered"
    /\ query.site = "Filter"
    /\ Len(query.rows) = 2
    /\ NullOperandOn(1)
    /\ PredicateOn(2) = Boolean(TRUE)
    /\ query.result = [err |-> "Ok", rows |-> <<query.rows[2]>>]
\* ------------------------------------------------------------- aggregates

\* The most rows handed to the Aggregate executor.
MaxAggRows == 3

\* The cells of the aggregated column "a": NULL, 0, 1, 0.5, 'x'; those of the
\* column "b" before it in the row: NULL, 1.
AggCells == {Null, Integer(0), Integer(1), Float(1, 2), String(<<120>>)}
AggColumns == <<<<98>>, <<97>>>>
AggRows == {<<y, x>> : y \in {Null, Integer(1)}, x \in AggCells}

\* The aggregate calls: the five functions, one of them in lower case, an
\* unknown function, on the columns "a", "b" and the unknown "z".
AggFunctions == {"COUNT", "MIN", "MAX", "SUM", "AVG", "count", "MEDIAN"}
AggCalls == {FunctionExpr(f, col) : f \in AggFunctions, col \in {<<97>>, <<98>>, <<122>>}}

\* func_name.to_uppercase() on the names used here.
ToUppercase(name) == IF name = "count" THEN "COUNT" ELSE name

\* Value::partial_cmp: "Less", "Equal", "Greater", or "None" for two values of
\* types that do not compare.
PartialCmp(a, b) ==
    IF a = Null /\ b = Null THEN "Equal"
    ELSE IF a = Null THEN "Less"
    ELSE IF b = Null THEN "Greater"
    ELSE IF IsNumber(a) /\ IsNumber(b)
    THEN LET l == Fraction(a).n * Fraction(b).d
             r == Fraction(b).n * Fraction(a).d
         IN  IF l < r THEN "Less" ELSE IF l = r THEN "Equal" ELSE "Greater"
    ELSE IF a[1] = "Boolean" /\ b[1] = "Boolean"
    THEN IF a = b THEN "Equal" ELSE IF b[2] THEN "Less" ELSE "Greater"
    ELSE IF a[1] = "String" /\ b[1] = "String"
    THEN IF a = b THEN "Equal" ELSE IF BytesLess(a[2], b[2]) THEN "Less" ELSE "Greater"
    ELSE "None"

\* The values of the column at pos that are not Null, in the order of the rows.
RECURSIVE NonNullValues(_, _, _)
NonNullValues(rows, pos, i) ==
    IF i > Len(rows) THEN << >>
    ELSE IF rows[i][pos] # Null THEN <<rows[i][pos]>> \o NonNullValues(rows, pos, i + 1)
    ELSE NonNullValues(rows, pos, i + 1)

\* Count::calc that counts every row.
CountCalcEveryRow(col_name, cols, rows) ==
    IF Position(cols, col_name) = 0 THEN [err |-> "Internal", val |-> Null]
    ELSE [err |-> "Ok", val |-> Integer(Len(rows))]

\* Count::calc: [err, val].
CountCalc(col_name, cols, rows) ==
    IF Position(cols, col_name) = 0 THEN [err |-> "Internal", val |-> Null]
    ELSE [err |-> "Ok",
          val |-> Integer(Len(NonNullValues(rows, Position(cols, col_name), 1)))]

\* values.sort_by(|a, b| a.partial_cmp(b).unwrap()) panics when two of the
\* values do not compare: a sort has to compare two neighbours of its result.
SortPanics(values) ==
    \E i \in 1 .. Len(values), j \in 1 .. Len(values) : PartialCmp(values[i], values[j]) = "None"

\* values[0] after the stable sort: the first of the least values.
SortedFirst(values) ==
    values[CHOOSE i \in 1 .. Len(values) :
              /\ \A j \in 1 .. Len(values) : PartialCmp(values[j], values[i]) # "Less"
              /\ \A j \in 1 .. (i - 1) : PartialCmp(values[j], values[i]) # "Equal"]

\* values[values.len() - 1] after the stable sort: the last of the greatest values.
SortedLast(values) ==
    values[CHOOSE i \in 1 .. Len(values) :
              /\ \A j \in 1 .. Len(values) : PartialCmp(values[j], values[i]) # "Greater"
              /\ \A j \in (i + 1) .. Len(values) : PartialCmp(values[j], values[i]) # "Equal"]

\* Min::calc and Max::calc after the values are collected.
MinOf(values) ==
    IF values = << >> THEN [err |-> "Ok", val |-> Null]
    ELSE IF SortPanics(values) THEN [err |-> "Panic", val |-> Null]
    ELSE [err |-> "Ok", val |-> SortedFirst(values)]
MaxOf(values) ==
    IF values = << >> THEN [err |-> "Ok", val |-> Null]
    ELSE IF SortPanics(values) THEN [err |-> "Panic", val |-> Null]
    ELSE [err |-> "Ok", val |-> SortedLast(values)]

\* Min::calc, Max::calc: [err, val].
MinCalc(col_name, cols, rows) ==
    IF Position(cols, col_name) = 0 THEN [err |-> "Internal", val |-> Null]
    ELSE MinOf(NonNullValues(rows, Position(cols, col_name), 1))
MaxCalc(col_name, cols, rows) ==
    IF Position(cols, col_name) = 0 THEN [err |-> "Internal", val |-> Null]
    ELSE MaxOf(NonNullValues(rows, Position(cols, col_name), 1))

\* The loop of Sum::calc from row i on: sum is None or Some([n, d]).
RECURSIVE SumLoop(_, _, _, _)
SumLoop(rows, pos, i, sum) ==
    IF i > Len(rows)
    THEN [err |-> "Ok", val |-> IF IsSome(sum) THEN Float(Unwrap(sum).n, Unwrap(sum).d) ELSE Null]
    ELSE IF rows[i][pos] = Null THEN SumLoop(rows, pos, i + 1, sum)
    ELSE IF IsNumber(rows[i][pos])
    THEN LET s == IF IsSome(sum) THEN Unwrap(sum) ELSE [n |-> 0, d |-> 1]
             f == Fraction(rows[i][pos])
         IN  SumLoop(rows, pos, i + 1, Some([n |-> s.n * f.d + f.n * s.d, d |-> s.d * f.d]))
    ELSE [err |-> "Internal", val |-> Null]

\* Sum::calc: [err, val].
SumCalc(col_name, cols, rows) ==
    IF Position(cols, col_name) = 0 THEN [err |-> "Internal", val |-> Null]
    ELSE SumLoop(rows, Position(cols, col_name), 1, None)

\* The match of Avg::calc on the sum and the count.
AvgOf(sum, count) ==
    IF sum.err # "Ok" THEN sum
    ELSE IF count.err # "Ok" THEN count
    ELSE IF sum.val # Null /\ sum.val[1] = "Float"
    THEN [err |-> "Ok", val |-> Float(sum.val[2], sum.val[3] * count.val[2])]
    ELSE [err |-> "Ok", val |-> Null]

\* Avg::calc: [err, val].
AvgCalc(col_name, cols, rows) ==
    AvgOf(SumCalc(col_name, cols, rows), CountCalc(col_name, cols, rows))

\* Calculator::build followed by calc.
Calculate(func_name, col_name, cols, rows) ==
    CASE ToUppercase(func_name) = "COUNT" -> CountCalc(col_name, cols, rows)
      [] ToUppercase(func_name) = "MIN" -> MinCalc(col_name, cols, rows)
      [] ToUppercase(func_name) = "MAX" -> MaxCalc(col_name, cols, rows)
      [] ToUppercase(func_name) = "SUM" -> SumCalc(col_name, cols, rows)
      [] ToUppercase(func_name) = "AVG" -> AvgCalc(col_name, cols, rows)
      [] OTHER -> [err |-> "Internal", val |-> Null]

\* Aggregate::execute of one aggregate call without GROUP BY: one row of one
\* value; [err, rows].
AggregateExecute(expr, columns, rows) ==
    LET r == Calculate(expr.name, expr.col, columns, rows)
    IN  IF r.err # "Ok" THEN [err |-> r.err, rows |-> << >>]
        ELSE [err |-> "Ok", rows |-> <<<<r.val>>>>]

\* Rows and an aggregate call are handed to the Aggregate executor.
InitAgg ==
    /\ engine = << >>
    /\ txns = [h \in Handles |-> Dropped("none", {})]
    /\ written = [h \in Handles |-> [k \in Keys |-> NoWrite]]
    /\ last = NoCall
    /\ sessions = [s \in Sessions |-> NewSession]
    /\ codec = NoCodec
    /\ disk = NewDisk
    /\ calls = NoCalls
    /\ \E rows \in SeqsUpTo(AggRows, MaxAggRows), expr \in AggCalls :
          query = [step |-> "aggrows", columns |-> AggColumns, rows |-> rows, expr |-> expr]

\* Aggregate::execute
Aggregate ==
    /\ query.step = "aggrows"
    /\ query' = [step |-> "aggregated", columns |-> query.columns, rows |-> query.rows,
                 expr |-> query.expr,
                 result |-> AggregateExecute(query.expr, query.columns, query.rows)]
    /\ UNCHANGED <<engine, txns, written, last, sessions, codec, disk, calls>>

NextAgg == Aggregate

SpecAgg == InitAgg /\ [][NextAgg]_vars

\* The cells of the column the aggregate call of the query names, by row.
AggCell(i) == query.rows[i][CHOOSE p \in 1 .. Len(query.columns) :
                               query.columns[p] = query.expr.col]
AggNonNull == {i \in 1 .. Len(query.rows) : AggCell(i) # Null}

\* The exact sum of the numbers in the rows S, as a fraction.
RECURSIVE ExactSum(_)
ExactSum(S) ==
    IF S = {} THEN [n |-> 0, d |-> 1]
    ELSE LET i == CHOOSE j \in S : TRUE
             rest == ExactSum(S \ {i})
             f == Fraction(AggCell(i))
         IN  [n |-> rest.n * f.d + f.n * rest.d, d |-> rest.d * f.d]

\* v is the Float of the fraction n / d.
IsFloatOf(v, n, d) == v[1] = "Float" /\ v[2] * d = n * v[3]

\* a is below b: two numbers by value, two strings by their bytes.
Below(a, b) ==
    IF IsNumber(a) /\ IsNumber(b)
    THEN Fraction(a).n * Fraction(b).d < Fraction(b).n * Fraction(a).d
    ELSE BytesLess(a[2], b[2])

\* The non-null cells are all numbers, or all strings.
AggNumeric == \A i \in AggNonNull : IsNumber(AggCell(i))
AggOrdered == AggNumeric \/ \A i \in AggNonNull : AggCell(i)[1] = "String"

\* The one value of the one row the Aggregate executor returned.
AggValue == query.result.rows[1][1]

\* C30: aggregates ignore NULL: COUNT(col) is the number of rows whose col is
\* not Null; MIN, MAX, SUM and AVG are taken over the non-null values only;
\* over a column of Nulls only, or over no rows, COUNT is 0 and MIN, MAX, SUM
\* and AVG are Null.
C30_AggregatesIgnoreNull ==
    (/\ query.step = "aggregated"
     /\ \E p \in 1 .. Len(query.columns) : query.columns[p] = query.expr.col)
    => LET f == query.expr.name
       IN  /\ f \in {"COUNT", "count"} =>
                 /\ query.result.err = "Ok"
                 /\ AggValue = Integer(Cardinality(AggNonNull))
           /\ (f \in {"MIN", "MAX", "SUM", "AVG"} /\ AggNonNull = {}) =>
                 /\ query.result.err = "Ok"
                 /\ AggValue = Null
           /\ (f \in {"MIN", "MAX"} /\ AggNonNull # {} /\ AggOrdered) =>
                 /\ query.result.err = "Ok"
                 /\ \E i \in AggNonNull : AggValue = AggCell(i)
                 /\ \A i \in AggNonNull :
                       IF f = "MIN" THEN ~Below(AggCell(i), AggValue)
                       ELSE ~Below(AggValue, AggCell(i))
           /\ (f = "SUM" /\ AggNonNull # {} /\ AggNumeric) =>
                 /\ query.result.err = "Ok"
                 /\ IsFloatOf(AggValue, ExactSum(AggNonNull).n, ExactSum(AggNonNull).d)
           /\ (f = "AVG" /\ AggNonNull # {} /\ AggNumeric) =>
                 /\ query.result.err = "Ok"
                 /\ IsFloatOf(AggValue, ExactSum(AggNonNull).n,
                              ExactSum(AggNonNull).d * Cardinality(AggNonNull))

\* AVG(a) over the three rows with a = NULL, 0, 1 (in some order) is 0.5.
C30_Witness ==
    /\ query.step = "aggregated"
    /\ query.expr = FunctionExpr("AVG", <<97>>)
    /\ Len(query.rows) = 3
    /\ {query.rows[i][2] : i \in 1 .. 3} = {Null, Integer(0), Integer(1)}
    /\ query.result = [err |-> "Ok", rows |-> <<<<Float(1, 2)>>>>]
\* ------------------------------------------------------------- partial statements

\* INSERT INTO t VALUES ('y', 'x'), (NULL, NULL): create_row stores the first
\* row and refuses the second, whose primary key is NULL.
RowY == <<String(<<121>>), String(<<120>>)>>
PartialInsert == InsertValuesStmt(Table.name, << >>, <<RowY, <<Null, Null>>>>)

\* The statements the clients send: the failing two-row INSERT among them.
PartialStatements ==
    {BeginStmt, CommitStmt, RollbackStmt, CreateTableStmt(Table),
     InsertStmt(Table.name, RowX), PartialInsert}

NextPartial == \E s \in Sessions, stmt \in PartialStatements : Execute(s, stmt)

SpecPartial == Init /\ [][NextPartial]_vars

\* C31: a mutation statement that fails partway has its enclosing transaction
\* rolled back as a whole: the row ('y', 'x'), which only the failing INSERT
\* writes, is never visible to a transaction begun afterwards.
C31_PartialStatementNeverVisible ==
    MvccGet(engine, MvccBegin(engine).state, EncKeyRow(Table.name, RowY[1])).val = None
\* ------------------------------------------------------------- commit and conflict frames

\* The entry x of the store is a marker of the transaction of version v:
\* TxnActive(v) or some TxnWrite(v, K).
MarkerOf(x, v) ==
    \/ x = EncTxnActive(v)
    \/ DecodeKey(x).tag = TagTxnWrite /\ DecodeKey(x).version = v

\* C32: after T commits the store holds no TxnWrite(T.v, K) and no TxnActive(T.v),
\* every Version(K, T.v) that T wrote is present with the payload of T's last
\* write of K, and every other entry is as it was.
C32_CommitFrame ==
    [][\A h \in Handles :
          (last'.op = "commit" /\ last'.t = h /\ Commit(h))
              => /\ \A x \in DOMAIN engine' : ~MarkerOf(x, h)
                 /\ \A k \in Keys :
                       written[h][k] # NoWrite
                           => /\ EncVersion(k, h) \in DOMAIN engine'
                              /\ engine'[EncVersion(k, h)] = BincodeOption(written[h][k])
                 /\ DOMAIN engine' = {x \in DOMAIN engine : ~MarkerOf(x, h)}
                 /\ \A x \in DOMAIN engine' : engine'[x] = engine[x]]_vars

\* A transaction that had set one key and deleted the other has committed
\* while another transaction is active.
C32_Witness ==
    /\ last.op = "commit"
    /\ txns[last.t].status = "committed"
    /\ \E k \in Keys : written[last.t][k] = None
    /\ \E k \in Keys : written[last.t][k] # None /\ written[last.t][k] # NoWrite
    /\ \E g \in Handles : Active(g)

\* C33: a set or delete that returns WriteConflict leaves the store as it was
\* (no TxnWrite marker, no Version entry written), the failing transaction
\* active, and its earlier writes in place.
C33_ConflictLeavesStore ==
    [][\A h \in Handles, k \in Keys :
          (last'.t = h /\ last'.key = k /\ last'.err = "WriteConflict"
             /\ (Set(h, k) \/ Delete(h, k)))
              => /\ engine' = engine
                 /\ txns'[h] = txns[h] /\ txns'[h].status = "active"
                 /\ EncTxnActive(h) \in DOMAIN engine'
                 /\ \A j \in Keys :
                       written[h][j] # NoWrite
                           => /\ EncTxnWrite(h, j) \in DOMAIN engine'
                              /\ EncVersion(j, h) \in DOMAIN engine'
                              /\ engine'[EncVersion(j, h)] = BincodeOption(written[h][j])]_vars

\* A transaction that had written one key got WriteConflict on the other,
\* which a concurrent transaction had written.
C33_Witness ==
    /\ IsWrite
    /\ last.err = "WriteConflict"
    /\ Active(last.t)
    /\ \E j \in Keys \ {last.key} : written[last.t][j] # NoWrite
    /\ \E t1 \in Handles : Concurrent(t1, last.t) /\ written[t1][last.key] # NoWrite
\* ------------------------------------------------------------- create_row, one engine call at a time

\* The first indexed column of the table from position i on, 0 when none is left.
NextIndexColumn(table, i) ==
    IF \E j \in i .. Len(table.columns) : table.columns[j].index
    THEN CHOOSE j \in i .. Len(table.columns) :
             table.columns[j].index /\ \A x \in i .. (j - 1) : ~table.columns[x].index
    ELSE 0

\* create_row has returned err on handle h.
Return(h, err) == [calls EXCEPT ![h].pc = "done", ![h].err = err]

\* The position of create_row after the save of column i (or after the set of
\* the row, i = 0): the load of the next indexed column, or the return of Ok.
AfterColumn(h, i) ==
    IF NextIndexColumn(Table, i + 1) = 0 THEN Return(h, "Ok")
    ELSE [calls EXCEPT ![h].pc = "load", ![h].i = NextIndexColumn(Table, i + 1)]

\* create_row is called: the row is validated and its primary key taken.
\* began_with is history: the transactions active when h began.
CallCreateRow(h, row) ==
    /\ Active(h)
    /\ calls[h].pc = "idle"
    /\ calls' = [calls EXCEPT ![h] =
                    [pc |-> IF ValidateRow(Table, row, 1) = "Ok" THEN "get" ELSE "done",
                     err |-> IF ValidateRow(Table, row, 1) = "Ok" THEN "Ok" ELSE "Internal",
                     row |-> row, pk |-> GetPrimaryKey(Table, row), i |-> 0, index |-> {},
                     began_with |-> txns[h].began_with]]
    /\ UNCHANGED <<engine, txns, written, last, sessions, codec, disk, query>>

\* self.txn.get(id): the duplicate check.
CreateRowGet(h) ==
    /\ calls[h].pc = "get"
    /\ \E g \in {MvccGet(engine, txns[h], EncKeyRow(Table.name, calls[h].pk))} :
          calls' = IF g.err # "Ok" THEN Return(h, g.err)
                   ELSE IF IsSome(g.val) THEN Return(h, "Internal")
                   ELSE [calls EXCEPT ![h].pc = "set"]
    /\ UNCHANGED <<engine, txns, written, last, sessions, codec, disk, query>>

\* self.txn.set(id, value): the row is stored.
CreateRowSet(h) ==
    /\ calls[h].pc = "set"
    /\ \E r \in {MvccSet(engine, txns[h], EncKeyRow(Table.name, calls[h].pk),
                         BincodeRow(calls[h].row))} :
          /\ engine' = r.eng
          /\ calls' = IF r.err # "Ok" THEN Return(h, r.err) ELSE AfterColumn(h, 0)
    /\ UNCHANGED <<txns, written, last, sessions, codec, disk, query>>

\* self.load_index of the indexed column i.
CreateRowLoad(h) ==
    /\ calls[h].pc = "load"
    /\ \E ld \in {KvLoadIndex(engine, txns[h], Table.name, Table.columns[calls[h].i].name,
                              calls[h].row[calls[h].i])} :
          calls' = IF ld.err # "Ok" THEN Return(h, ld.err)
                   ELSE [calls EXCEPT ![h].pc = "save",
                                      ![h].index = ld.index \cup {calls[h].pk}]
    /\ UNCHANGED <<engine, txns, written, last, sessions, codec, disk, query>>

\* self.save_index of the indexed column i.
CreateRowSave(h) ==
    /\ calls[h].pc = "save"
    /\ \E r \in {KvSaveIndex(engine, txns[h], Table.name, Table.columns[calls[h].i].name,
                             calls[h].row[calls[h].i], calls[h].index)} :
          /\ engine' = r.eng
          /\ calls' = IF r.err # "Ok" THEN Return(h, r.err) ELSE AfterColumn(h, calls[h].i)
    /\ UNCHANGED <<txns, written, last, sessions, codec, disk, query>>

\* commit or rollback of a transaction that is not inside create_row.
Finish(h) ==
    /\ calls[h].pc \in {"idle", "done"}
    /\ Commit(h) \/ Rollback(h)

NextRace ==
    \/ KvBegin
    \/ \E h \in Handles, row \in Rows \cup InvalidRows : CallCreateRow(h, row)
    \/ \E h \in Handles : CreateRowGet(h)
    \/ \E h \in Handles : CreateRowSet(h)
    \/ \E h \in Handles : CreateRowLoad(h)
    \/ \E h \in Handles : CreateRowSave(h)
    \/ \E h \in Handles : Finish(h)

SpecRace == Init /\ [][NextRace]_vars

\* create_row of h has returned Ok, and h has not rolled back since.
Created(h) ==
    calls[h].pc = "done" /\ calls[h].err = "Ok" /\ txns[h].status # "rolledback"

\* C34: of two concurrent transactions that both call create_row with the same
\* new primary key, whatever the interleaving of their engine calls, at most
\* one call returns Ok.
C34_OneCreatorWins ==
    \A h \in Handles, g \in Handles :
        (h < g /\ Created(h) /\ Created(g) /\ h \in calls[g].began_with)
            => calls[h].pk # calls[g].pk

\* Two concurrent transactions called create_row with one primary key: one
\* call returned Ok, the other WriteConflict from its set of the row.
C34_Witness ==
    \E h \in Handles, g \in Handles :
        /\ h # g
        /\ Created(h)
        /\ calls[g].pc = "done" /\ calls[g].err = "WriteConflict"
        /\ calls[h].pk = calls[g].pk
        /\ (h \in calls[g].began_with \/ g \in calls[h].began_with)

\* C35: every Version(K, v) entry of a transaction v that is still active has
\* its TxnWrite(v, K) marker, and there is no TxnWrite(v, K) marker of a
\* transaction v that has committed or rolled back.
C35_MarkersMatchVersions ==
    \A x \in DOMAIN engine :
        /\ (DecodeKey(x).tag = TagVersion /\ Active(DecodeKey(x).version))
              => EncTxnWrite(DecodeKey(x).version, DecodeKey(x).key) \in DOMAIN engine
        /\ DecodeKey(x).tag = TagTxnWrite
              => txns[DecodeKey(x).version].status \notin {"committed", "rolledback"}

\* An active transaction holds a Version entry with its marker while a
\* committed transaction's Version entry of the same key has none.
C35_Witness ==
    \E k \in Keys, h \in Handles, g \in Handles :
        /\ Active(h) /\ txns[g].status = "committed"
        /\ {EncVersion(k, h), EncTxnWrite(h, k), EncVersion(k, g)} \subseteq DOMAIN engine
        /\ EncTxnWrite(g, k) \notin DOMAIN engine
\* ------------------------------------------------------------- index scans

\* pks.sort_by(partial_cmp): the primary keys of a bucket, least first.
RECURSIVE SortValues(_)
SortValues(S) ==
    IF S = {} THEN << >>
    ELSE LET least == CHOOSE v \in S : \A w \in S : PartialCmp(w, v) # "Less"
         IN  <<least>> \o SortValues(S \ {least})

\* The loop of IndexScan::execute over the sorted primary keys: read_by_pk of
\* each, a key without a row passed over; [err, rows].
RECURSIVE IndexScanLoop(_, _, _, _, _, _)
IndexScanRead(eng, st, table_name, pks, i, rows, rd) ==
    IF rd.err # "Ok" THEN [err |-> rd.err, rows |-> << >>]
    ELSE IndexScanLoop(eng, st, table_name, pks, i + 1,
                       IF IsSome(rd.val) THEN Append(rows, Unwrap(rd.val)) ELSE rows)
IndexScanLoop(eng, st, table_name, pks, i, rows) ==
    IF i > Len(pks) THEN [err |-> "Ok", rows |-> rows]
    ELSE IndexScanRead(eng, st, table_name, pks, i, rows,
                       KvReadByPk(eng, st, table_name, pks[i]))

\* IndexScan::execute after load_index.
IndexScanRows(eng, st, table_name, ld) ==
    IF ld.err # "Ok" THEN [err |-> ld.err, rows |-> << >>]
    ELSE IndexScanLoop(eng, st, table_name, SortValues(ld.index), 1, << >>)

\* IndexScan::execute on a table the transaction sees: [err, rows].
IndexScanExecute(eng, st, table, field, value) ==
    Only({IndexScanRows(eng, st, table.name, ld) :
             ld \in {KvLoadIndex(eng, st, table.name, field, value)}})

\* The literals of `where b = x`.
Literals == {String(<<120>>), Null}

\* select * from t where b = x, run by transaction h once through IndexScan and
\* once through Scan with the filter b = x.
SelectBothWays(h, x) ==
    /\ Active(h)
    /\ \E ix \in {IndexScanExecute(engine, txns[h], Table, Table.columns[2].name, x)},
          sc \in {KvScanTable(engine, txns[h], Table,
                              Some(OperationExpr("Equal", FieldExpr(Table.columns[2].name),
                                                 ConstsExpr(x))))} :
          last' = [NoCall EXCEPT !.op = "select", !.t = h, !.value = Some(x),
                                 !.val = Some([index |-> ix, scan |-> sc])]
    /\ UNCHANGED <<engine, txns, written, sessions, codec, disk, query, calls>>

NextIndex ==
    \/ KvBegin
    \/ \E h \in Handles, row \in Rows : CreateRow(h, row)
    \/ \E h \in Handles, pk \in PkValues : DeleteRow(h, pk)
    \/ \E h \in Handles : Commit(h)
    \/ \E h \in Handles : Rollback(h)
    \/ \E h \in Handles, x \in Literals : SelectBothWays(h, x)

SpecIndex == Init /\ [][NextIndex]_vars

\* C36: for the indexed column b and a literal x, IndexScan returns exactly
\* the rows a full Scan with the filter b = x returns, in every reachable
\* state, also for x = NULL and for rows whose b is NULL.
C36_IndexScanIsFilteredScan ==
    last.op = "select" => Unwrap(last.val).index = Unwrap(last.val).scan
\* ------------------------------------------------------------------ joins

\* The most rows on either side of a join.
MaxJoinRows == 2

\* The join columns "l" of the left input and "r" of the right input, their
\* cells, and the predicate l = r.
JoinLeftColumns == <<<<108>>>>
JoinRightColumns == <<<<114>>>>
JoinCells == {Null, Integer(1), Integer(2)}
JoinRows == {<<x>> : x \in JoinCells}
JoinPredicate == Some(OperationExpr("Equal", FieldExpr(<<108>>), FieldExpr(<<114>>)))

\* A row of n Nulls.
NullRow(n) == [i \in 1 .. n |-> Null]

\* The inner loop of NestLoopJoin::execute from the right row j on:
\* [err, rows, matched].
RECURSIVE NestLoopInner(_, _, _, _, _, _, _, _)
NestLoopInner(predicate, left_cols, lrow, right_cols, right_rows, j, new_rows, matched) ==
    IF j > Len(right_rows) THEN [err |-> "Ok", rows |-> new_rows, matched |-> matched]
    ELSE IF predicate = None
    THEN NestLoopInner(predicate, left_cols, lrow, right_cols, right_rows, j + 1,
                       Append(new_rows, lrow \o right_rows[j]), matched)
    ELSE LET v == EvaluateExpr(Unwrap(predicate), left_cols, lrow, right_cols, right_rows[j])
         IN  IF v = Boolean(TRUE)
             THEN NestLoopInner(predicate, left_cols, lrow, right_cols, right_rows, j + 1,
                                Append(new_rows, lrow \o right_rows[j]), TRUE)
             ELSE IF v = Null \/ v = Boolean(FALSE)
             THEN NestLoopInner(predicate, left_cols, lrow, right_cols, right_rows, j + 1,
                                new_rows, matched)
             ELSE [err |-> "Internal", rows |-> << >>, matched |-> matched]

\* The outer loop of NestLoopJoin::execute from the left row i on: [err, rows].
RECURSIVE NestLoopOuter(_, _, _, _, _, _, _, _)
NestLoopOuter(predicate, outer, left_cols, left_rows, right_cols, right_rows, i, new_rows) ==
    IF i > Len(left_rows) THEN [err |-> "Ok", rows |-> new_rows]
    ELSE LET r == NestLoopInner(predicate, left_cols, left_rows[i], right_cols,
                                right_rows, 1, new_rows, FALSE)
         IN  IF r.err # "Ok" THEN [err |-> r.err, rows |-> << >>]
             ELSE NestLoopOuter(predicate, outer, left_cols, left_rows, right_cols,
                                right_rows, i + 1,
                                IF outer /\ ~r.matched
                                THEN Append(r.rows, left_rows[i] \o NullRow(Len(right_cols)))
                                ELSE r.rows)

\* NestLoopJoin::execute on the result sets of its two sources:
\* [err, columns, rows].
NestLoopJoinExecute(left_cols, left_rows, right_cols, right_rows, predicate, outer) ==
    LET r == NestLoopOuter(predicate, outer, left_cols, left_rows, right_cols,
                           right_rows, 1, << >>)
    IN  IF r.err # "Ok" THEN [err |-> r.err, columns |-> << >>, rows |-> << >>]
        ELSE [err |-> "Ok", columns |-> left_cols \o right_cols, rows |-> r.rows]

\* parse_join_filter: Some(<<left field, right field>>), None, or <<"Panic">> for
\* the unwrap of an operand of = that is no column and no equality.
RECURSIVE ParseJoinFilter(_)
ParseJoinFilter(predicate) ==
    IF predicate = None THEN None
    ELSE IF Unwrap(predicate).kind = "Field" THEN Some(<<Unwrap(predicate).name, << >>>>)
    ELSE IF Unwrap(predicate).kind = "Operation" /\ Unwrap(predicate).op = "Equal"
    THEN LET l == ParseJoinFilter(Some(Unwrap(predicate).l))
             r == ParseJoinFilter(Some(Unwrap(predicate).r))
         IN  IF l \in {None, <<"Panic">>} \/ r \in {None, <<"Panic">>} THEN <<"Panic">>
             ELSE Some(<<Unwrap(l)[1], Unwrap(r)[1]>>)
    ELSE None

\* hash_map.get(&key) after the build loop: the right rows whose join cell is
\* equal to key by the derived PartialEq of Value, in the order of the right
\* input; << >> for no entry.
HashMapGet(right_rows, rpos, key) == SelectSeq(right_rows, LAMBDA row : row[rpos] = key)

\* The probe loop of HashJoin::execute from the left row i on.
RECURSIVE HashJoinProbe(_, _, _, _, _, _, _, _)
HashJoinProbe(outer, left_rows, lpos, right_cols, right_rows, rpos, i, new_rows) ==
    IF i > Len(left_rows) THEN new_rows
    ELSE HashJoinProbe(outer, left_rows, lpos, right_cols, right_rows, rpos, i + 1,
             LET rows == HashMapGet(right_rows, rpos, left_rows[i][lpos])
             IN  IF rows # << >>
                 THEN new_rows \o [n \in 1 .. Len(rows) |-> left_rows[i] \o rows[n]]
                 ELSE IF outer
                 THEN Append(new_rows, left_rows[i] \o NullRow(Len(right_cols)))
                 ELSE new_rows)

\* HashJoin::execute on the result sets of its two sources:
\* [err, columns, rows].
HashJoinExecute(left_cols, left_rows, right_cols, right_rows, predicate, outer) ==
    LET filter == ParseJoinFilter(predicate)
    IN  IF filter = <<"Panic">> THEN [err |-> "Panic", columns |-> << >>, rows |-> << >>]
        ELSE IF \/ filter = None
                \/ Position(left_cols, Unwrap(filter)[1]) = 0
                \/ Position(right_cols, Unwrap(filter)[2]) = 0
        THEN [err |-> "Internal", columns |-> << >>, rows |-> << >>]
        ELSE [err |-> "Ok", columns |-> left_cols \o right_cols,
              rows |-> HashJoinProbe(outer, left_rows, Position(left_cols, Unwrap(filter)[1]),
                                     right_cols, right_rows,
                                     Position(right_cols, Unwrap(filter)[2]), 1, << >>)]

\* Two inputs and an outer flag are handed to the two join executors.
InitJoin ==
    /\ engine = << >>
    /\ txns = [h \in Handles |-> Dropped("none", {})]
    /\ written = [h \in Handles |-> [k \in Keys |-> NoWrite]]
    /\ last = NoCall
    /\ sessions = [s \in Sessions |-> NewSession]
    /\ codec = NoCodec
    /\ disk = NewDisk
    /\ calls = NoCalls
    /\ \E left \in SeqsUpTo(JoinRows, MaxJoinRows), right \in SeqsUpTo(JoinRows, MaxJoinRows),
          outer \in BOOLEAN :
          query = [step |-> "joinrows", left |-> left, right |-> right, outer |-> outer]

\* The same join run by NestLoopJoin and by HashJoin.
JoinBothWays ==
    /\ query.step = "joinrows"
    /\ query' = [step |-> "joined", left |-> query.left, right |-> query.right,
                 outer |-> query.outer,
                 nest |-> NestLoopJoinExecute(JoinLeftColumns, query.left, JoinRightColumns,
                                              query.right, JoinPredicate, query.outer),
                 hash |-> HashJoinExecute(JoinLeftColumns, query.left, JoinRightColumns,
                                          query.right, JoinPredicate, query.outer)]
    /\ UNCHANGED <<engine, txns, written, last, sessions, codec, disk, calls>>

NextJoin == JoinBothWays

SpecJoin == InitJoin /\ [][NextJoin]_vars

\* C37: for a predicate L.col = R.col and the same inputs and outer flag,
\* HashJoin emits the same rows in the same order as NestLoopJoin, also when
\* the join columns hold Null (Null never matches Null) and for the
\* Null-padded rows of an outer join.
C37_HashJoinIsNestLoopJoin ==
    query.step = "joined" => query.hash = query.nest
\* ---------------------------------------------------------------- UPDATE

\* Statement::Update: columns maps a column name to the constant it is set to.
UpdateStmt(table_name, columns, filter) ==
    [kind |-> "Update", table_name |-> table_name, columns |-> columns, filter |-> filter]

\* The row with every column the statement names set to its constant.
NewRow(scan_columns, row, columns) ==
    [i \in 1 .. Len(row) |->
        IF scan_columns[i] \in DOMAIN columns THEN columns[scan_columns[i]] ELSE row[i]]

\* The loop of Update::execute from the i-th scanned row: update_row of the
\* new row under the primary key of the scanned one; the first error ends it.
\* UpdateNext carries on after update_row. [eng, err, count].
RECURSIVE UpdateLoop(_, _, _, _, _, _)
UpdateNext(st, table, node, rows, i, r) ==
    IF r.err # "Ok" THEN [eng |-> r.eng, err |-> r.err, count |-> 0]
    ELSE UpdateLoop(r.eng, st, table, node, rows, i + 1)

UpdateLoop(eng, st, table, node, rows, i) ==
    IF i > Len(rows) THEN [eng |-> eng, err |-> "Ok", count |-> Len(rows)]
    ELSE UpdateNext(st, table, node, rows, i,
             KvUpdateRow(eng, st, table, GetPrimaryKey(table, rows[i]),
                         NewRow(ColumnNames(table), rows[i], node.columns)))

\* Update::execute after the Scan of its source.
UpdateScanned(eng, st, table, node, scan) ==
    IF scan.err # "Ok" THEN [eng |-> eng, err |-> scan.err, count |-> 0]
    ELSE UpdateLoop(eng, st, table, node, scan.rows, 1)

\* Update::execute after must_get_table of the source Scan.
UpdateTable(eng, st, node, g) ==
    IF g.err # "Ok" THEN [eng |-> eng, err |-> g.err, count |-> 0]
    ELSE UpdateScanned(eng, st, Unwrap(g.val), node,
                       KvScanTable(eng, st, Unwrap(g.val), node.filter))

\* Update::execute: [eng, err, count].
UpdateExecute(eng, st, node) ==
    Only({UpdateTable(eng, st, node, g) : g \in {KvMustGetTable(eng, st, node.table_name)}})

\* The rows the clients insert: ('x', 'x'), ('y', NULL) and ('x', 1), which
\* create_row rejects; and the assignments of their updates: b = 'y', b = NULL,
\* b = 1, a = 'y', a = NULL, a = 1.
UpdateRows == {<<String(<<120>>), String(<<120>>)>>, <<String(<<121>>), Null>>,
               <<String(<<120>>), Integer(1)>>}
Assignments ==
    {[c \in {col} |-> v] : col \in {<<97>>, <<98>>},
                           v \in {String(<<121>>), Null, Integer(1)}}

\* CREATE TABLE run on the transaction h.
CreateTableIn(h) ==
    /\ Active(h)
    /\ LET r == KvCreateTable(engine, txns[h], Table)
       IN  /\ engine' = r.eng
           /\ last' = [NoCall EXCEPT !.op = "create_table", !.t = h, !.err = r.err]
    /\ UNCHANGED <<txns, written, sessions, codec, disk, query, calls>>

\* INSERT INTO t VALUES (row) run on the transaction h.
InsertIn(h, row) ==
    /\ Active(h)
    /\ LET r == InsertExecute(engine, txns[h], InsertStmt(Table.name, row))
       IN  /\ engine' = r.eng
           /\ last' = [NoCall EXCEPT !.op = "insert", !.t = h, !.err = r.err]
    /\ UNCHANGED <<txns, written, sessions, codec, disk, query, calls>>

\* UPDATE t SET col = v run on the transaction h; last.value is the
\* assignment, last.val the number of rows updated.
UpdateIn(h, columns) ==
    /\ Active(h)
    /\ LET r == UpdateExecute(engine, txns[h], UpdateStmt(Table.name, columns, None))
       IN  /\ engine' = r.eng
           /\ last' = [NoCall EXCEPT !.op = "update", !.t = h, !.err = r.err,
                                     !.value = Some(columns), !.val = Some(r.count)]
    /\ UNCHANGED <<txns, written, sessions, codec, disk, query, calls>>

NextUpdate ==
    \/ Begin
    \/ \E h \in Handles : CreateTableIn(h)
    \/ \E h \in Handles, row \in UpdateRows : InsertIn(h, row)
    \/ \E h \in Handles, columns \in Assignments : UpdateIn(h, columns)
    \/ \E h \in Handles : Commit(h)
    \/ \E h \in Handles : Rollback(h)

SpecUpdate == Init /\ [][NextUpdate]_vars

\* The rows of the table t in the store: every version of a row key that is
\* no tombstone.
StoredTableRows ==
    {UnBincodeRow(Unwrap(UnBincodeOption(engine[x]))) :
        x \in {y \in DOMAIN engine :
                  /\ DecodeKey(y).tag = TagVersion
                  /\ StartsWith(DecodeKey(y).key, EncKeyPrefixRow(Table.name))
                  /\ IsSome(UnBincodeOption(engine[y]))}}

\* C38: after any sequence of INSERT and UPDATE statements every stored cell
\* is a value of its column's datatype, or Null in a nullable column.
C38_StoredCellsAreTyped ==
    \A row \in StoredTableRows : ValidateRow(Table, row, 1) = "Ok"
\* ------------------------------------------------------ aggregates with GROUP BY

\* The most rows handed to the Aggregate executor with a select list.
MaxGroupRows == 2

\* The select lists: a bare column alone, and beside an aggregate call on
\* either side of it; an aggregate call on an unknown column before a bare
\* column; a constant. The GROUP BY clauses: none, the columns "a" and "b", an
\* unknown column.
SelectLists ==
    {<<FieldExpr(<<97>>)>>,
     <<FieldExpr(<<97>>), FunctionExpr("COUNT", <<98>>)>>,
     <<FunctionExpr("COUNT", <<98>>), FieldExpr(<<97>>)>>,
     <<FunctionExpr("COUNT", <<122>>), FieldExpr(<<97>>)>>,
     <<FunctionExpr("MIN", <<97>>), FieldExpr(<<98>>)>>,
     <<ConstsExpr(Integer(1))>>}
GroupBys == {None, Some(FieldExpr(<<97>>)), Some(FieldExpr(<<98>>)), Some(FieldExpr(<<122>>))}

\* `if let Some(Expression::Field(group_col)) = &self.group_by`
IsGroupField(group_by) == IsSome(group_by) /\ Unwrap(group_by).kind = "Field"

\* The closure calc of Aggregate::execute from the i-th expression of the
\* select list: [err, row]; err is "Panic" for col_val.unwrap() on None.
RECURSIVE CalcRow(_, _, _, _, _, _, _)
CalcRow(exprs, group_by, col_val, columns, rows, i, new_row) ==
    IF i > Len(exprs) THEN [err |-> "Ok", row |-> new_row]
    ELSE IF exprs[i].kind = "Function"
    THEN LET r == Calculate(exprs[i].name, exprs[i].col, columns, rows)
         IN  IF r.err # "Ok" THEN [err |-> r.err, row |-> << >>]
             ELSE CalcRow(exprs, group_by, col_val, columns, rows, i + 1,
                          Append(new_row, r.val))
    ELSE IF exprs[i].kind = "Field"
    THEN IF IsGroupField(group_by) /\ exprs[i].name # Unwrap(group_by).name
         THEN [err |-> "Internal", row |-> << >>]
         ELSE IF col_val = None THEN [err |-> "Panic", row |-> << >>]
         ELSE CalcRow(exprs, group_by, col_val, columns, rows, i + 1,
                      Append(new_row, Unwrap(col_val)))
    ELSE [err |-> "Internal", row |-> << >>]

\* new_cols after a call of calc that returned Ok: the column name of a bare
\* column, <<FUNC, col>> for the name FUNC(col) of an aggregate call.
NewCols(exprs) ==
    [i \in 1 .. Len(exprs) |->
        IF exprs[i].kind = "Function" THEN <<ToUppercase(exprs[i].name), exprs[i].col>>
        ELSE exprs[i].name]

\* The rows of one group, in the order of the input.
GroupRows(rows, pos, key) == SelectSeq(rows, LAMBDA row : row[pos] = key)

\* The loop over agg_map from its i-th entry, the entries taken in the order
\* keys: [err, rows].
RECURSIVE GroupLoop(_, _, _, _, _, _, _, _)
GroupLoop(exprs, group_by, columns, rows, pos, keys, i, new_rows) ==
    IF i > Len(keys) THEN [err |-> "Ok", rows |-> new_rows]
    ELSE LET r == CalcRow(exprs, group_by, Some(keys[i]), columns,
                          GroupRows(rows, pos, keys[i]), 1, << >>)
         IN  IF r.err # "Ok" THEN [err |-> r.err, rows |-> << >>]
             ELSE GroupLoop(exprs, group_by, columns, rows, pos, keys, i + 1,
                            Append(new_rows, r.row))

\* The keys of agg_map: the values of the group column.
GroupKeys(group_by, columns, rows) ==
    IF IsGroupField(group_by) /\ Position(columns, Unwrap(group_by).name) # 0
    THEN {rows[i][Position(columns, Unwrap(group_by).name)] : i \in 1 .. Len(rows)}
    ELSE {}

\* The orders in which a HashMap of the keys S can be iterated.
IterationOrders(S) ==
    {keys \in [1 .. Cardinality(S) -> S] : \A k \in S : \E i \in DOMAIN keys : keys[i] = k}

\* Aggregate::execute on the result set of its source, agg_map iterated in the
\* order keys: [err, columns, rows].
AggregateSelect(exprs, group_by, columns, rows, keys) ==
    LET failed(err) == [err |-> err, columns |-> << >>, rows |-> << >>]
    IN  IF IsGroupField(group_by)
        THEN IF Position(columns, Unwrap(group_by).name) = 0 THEN failed("Internal")
             ELSE LET r == GroupLoop(exprs, group_by, columns, rows,
                                     Position(columns, Unwrap(group_by).name), keys, 1, << >>)
                  IN  IF r.err # "Ok" THEN failed(r.err)
                      ELSE [err |-> "Ok",
                            columns |-> IF keys = << >> THEN << >> ELSE NewCols(exprs),
                            rows |-> r.rows]
        ELSE LET r == CalcRow(exprs, group_by, None, columns, rows, 1, << >>)
             IN  IF r.err # "Ok" THEN failed(r.err)
                 ELSE [err |-> "Ok", columns |-> NewCols(exprs), rows |-> <<r.row>>]

\* The planner puts an Aggregate node over the source when the select list
\* holds an aggregate call or the query has a GROUP BY clause.
HasAgg(exprs, group_by) ==
    \/ \E i \in 1 .. Len(exprs) : exprs[i].kind = "Function"
    \/ IsSome(group_by)

\* Rows, a select list and a GROUP BY clause are handed to the Aggregate
\* executor.
InitGroup ==
    /\ engine = << >>
    /\ txns = [h \in Handles |-> Dropped("none", {})]
    /\ written = [h \in Handles |-> [k \in Keys |-> NoWrite]]
    /\ last = NoCall
    /\ sessions = [s \in Sessions |-> NewSession]
    /\ codec = NoCodec
    /\ disk = NewDisk
    /\ calls = NoCalls
    /\ \E rows \in SeqsUpTo(AggRows, MaxGroupRows), exprs \in SelectLists,
          group_by \in GroupBys :
          /\ HasAgg(exprs, group_by)
          /\ query = [step |-> "grouprows", columns |-> AggColumns, rows |-> rows,
                      exprs |-> exprs, group_by |-> group_by]

\* Aggregate::execute
AggregateGroups ==
    /\ query.step = "grouprows"
    /\ \E keys \in IterationOrders(GroupKeys(query.group_by, query.columns, query.rows)) :
          query' = [step |-> "grouped", columns |-> query.columns, rows |-> query.rows,
                    exprs |-> query.exprs, group_by |-> query.group_by,
                    result |-> AggregateSelect(query.exprs, query.group_by, query.columns,
                                               query.rows, keys)]
    /\ UNCHANGED <<engine, txns, written, last, sessions, codec, disk, calls>>

NextGroup == AggregateGroups

SpecGroup == InitGroup /\ [][NextGroup]_vars

\* The select list of the query holds a bare column that is not the GROUP BY
\* column.
BareColumnOutsideGroup ==
    \E i \in 1 .. Len(query.exprs) :
        /\ query.exprs[i].kind = "Field"
        /\ query.group_by # Some(FieldExpr(query.exprs[i].name))

\* C39: an aggregate query whose select list holds a bare column that is not
\* the GROUP BY column, also one without GROUP BY, returns an Internal error
\* and does not abort the executor.
C39_BareColumnIsInternalError ==
    (query.step = "grouped" /\ BareColumnOutsideGroup) => query.result.err = "Internal"
====
